---- MODULE Spec2Model ----
(***************************************************************************)
(* Model of the energy-management core of greg-07/roboczy:                 *)
(*   - mqtt_sa.py       SolarAssistantMQTT, the telemetry aggregator       *)
(*   - pv_forecast.py   fetch_forecast / calculate_energy / make_forecast  *)
(*                      / run_scheduler, the forecast integrator           *)
(*   - daily_windows.py calculate_daily_windows / get_current_window_simple*)
(* Threads and callbacks are processes with a program counter; every       *)
(* handler is split only where another thread can observe the difference.  *)
(***************************************************************************)
EXTENDS Integers, Sequences, FiniteSets, TLC

VARIABLES
    \* ---- mqtt_sa.py ----
    current_data,   \* SolarAssistantMQTT.current_data: the top-level dict
    heap,           \* the five nested dicts current_data refers to
    data_cache,     \* SolarAssistantMQTT.data_cache: topic -> {value, timestamp}
    lock,           \* SolarAssistantMQTT.lock: "free" or the thread holding it
    client,         \* SolarAssistantMQTT.client: "None" | "created" | "looping"
    link,           \* broker session: "down" | "connack" | "up"
    subscriptions,  \* topic patterns subscribed on the session
    connect_ret,    \* last return value of connect(): "none" | "True" | "False"
    net_pc,         \* position of the paho network thread (runs the callbacks)
    msg,            \* message the network thread is handling, or NoMsg
    rd_pc,          \* position of the consumer thread inside get_current_data
    held,           \* the dict get_current_data last returned to the consumer
    clock,          \* datetime.now(); one tick per delivered event
    nmsgs,          \* messages delivered so far
    nsessions,      \* CONNACKs received so far
    msg_exc,        \* exception the last _on_message caught and logged, or "none"
    last_msg,       \* history: the message _on_message was last called with
    prefixes,       \* history: message-written snapshot state after each complete message
    ndisconnects,   \* disconnect() calls so far
    pub,            \* the last publish_command call: its arguments, what it sent, its result
    \* ---- daily_windows.py ----
    config,         \* what the configuration gives calculate_daily_windows
    sun,            \* what astral gives for the location on the current day
    windows,        \* the dict calculate_daily_windows last returned
    cls_now,        \* current_time of the last get_current_window_simple call, in minutes
    cls_out,        \* what that call returned
    wnow,           \* the wall clock, in minutes since 00:00 of day 0
    calls,          \* history: the calls of calculate_daily_windows followed so far
    \* ---- pv_forecast.py ----
    history_file,   \* JSON_FILE on disk
    sched_pc,       \* run_scheduler: "sleeping" | "job" | "crashed"
    mf_pc,          \* position inside make_forecast, "none" outside it
    mf,             \* locals of the running make_forecast
    fetch_depth,    \* nested fetch_forecast calls below the one make_forecast made
    fetch_ret,      \* what fetch_forecast returned to the current or last tick
    last_resp,      \* history: the response fetch_forecast last received
    now_month,      \* datetime.now(TIMEZONE).month
    today,          \* datetime.now(TIMEZONE).date(), as a day number
    half,           \* "am" until the day's 12:00 job has run, then "pm"
    ticks,          \* ticks fired so far
    ce_in,          \* arguments of the last direct calculate_energy call
    ce_out,         \* its result
    write_result,   \* history: how the file block of the last tick ended
    local_offset,   \* minutes the machine's wall clock is ahead of UTC
    calendar,       \* the month of local day 1 and the local day the next month begins
    \* ---- config_loader.py ----
    cfg_files,      \* config/<key>.json on disk, per cache key
    config_cache,   \* _config_cache: the four entries and last_load_time
    reload_ret,     \* history: how the last reload_all_configs ended
    getter_ret,     \* history: the last getter called and how it ended
    nreloads,       \* history: the reload_all_configs calls made so far
    cfg_calls,      \* history: the loader calls made from outside so far
    \* ---- api.py ----
    api_resp,       \* history: the last endpoint served and its response
    nrequests       \* history: the requests served so far

mqtt_vars == <<current_data, heap, data_cache, lock, client, link, subscriptions,
               connect_ret, net_pc, msg, rd_pc, held, clock, nmsgs, nsessions,
               msg_exc, last_msg, prefixes, ndisconnects, pub>>

windows_vars == <<config, sun, windows, cls_now, cls_out>>

calc_vars == <<wnow, calls>>

forecast_vars == <<history_file, sched_pc, mf_pc, mf, fetch_depth, fetch_ret, last_resp,
                   now_month, today, half, ticks, ce_in, ce_out, write_result,
                   local_offset, calendar>>

config_vars == <<cfg_files, config_cache, reload_ret, getter_ret, nreloads, cfg_calls>>

api_vars == <<api_resp, nrequests>>

vars == <<mqtt_vars, windows_vars, calc_vars, forecast_vars, config_vars, api_vars>>

(***************************************************************************)
(* Bounds of the model.                                                    *)
(***************************************************************************)
MaxMsgs == 2        \* messages delivered to _on_message in one behaviour
MaxSessions == 2    \* CONNACKs the broker sends in one behaviour
MaxDisconnects == 1 \* disconnect() calls in one behaviour

(***************************************************************************)
(* Values.                                                                 *)
(***************************************************************************)
\* Values of different kinds are records, so that any two can be compared.
None == [none |-> TRUE]          \* Python None
Absent == [absent |-> TRUE]      \* a key the dict does not hold
NoMsg == [no_msg |-> TRUE]
NoSnapshot == [no_snapshot |-> TRUE]
NoPublish == [no_publish |-> TRUE]
Prefix == "SZE"

\* A number as a decimal: Num * 10^(-Exp), normalised (no trailing zero digit).
RECURSIVE Normalise(_, _)
Normalise(num, exp) ==
    IF exp > 0 /\ num % 10 = 0 THEN Normalise(num \div 10, exp - 1)
    ELSE [num |-> num, exp |-> exp]

Zero == [num |-> 0, exp |-> 0]

(***************************************************************************)
(* Payload strings: sequences of characters.  "sup2" stands for U+00B2,    *)
(* a character for which str.isdigit() is true and float() raises.         *)
(***************************************************************************)
AsciiDigits == {"0", "1", "2", "3", "4", "5", "6", "7", "8", "9"}
OtherDigits == {"sup2"}

DigitValue(c) ==
    CASE c = "0" -> 0 [] c = "1" -> 1 [] c = "2" -> 2 [] c = "3" -> 3 [] c = "4" -> 4
      [] c = "5" -> 5 [] c = "6" -> 6 [] c = "7" -> 7 [] c = "8" -> 8 [] c = "9" -> 9

\* str.isdigit(): non-empty and every character is a digit character.
IsDigit(s) ==
    Len(s) > 0 /\ \A i \in 1..Len(s) : s[i] \in AsciiDigits \cup OtherDigits

\* Index of the first "." of s, 0 when there is none.
FirstDot(s) ==
    IF \E i \in 1..Len(s) : s[i] = "."
    THEN CHOOSE i \in 1..Len(s) : s[i] = "." /\ \A j \in 1..(i - 1) : s[j] # "."
    ELSE 0

\* payload.replace('.', '', 1)
ReplaceFirstDot(s) ==
    IF FirstDot(s) = 0 THEN s
    ELSE SubSeq(s, 1, FirstDot(s) - 1) \o SubSeq(s, FirstDot(s) + 1, Len(s))

RECURSIVE DigitsValue(_)
DigitsValue(s) ==
    IF Len(s) = 0 THEN 0
    ELSE 10 * DigitsValue(SubSeq(s, 1, Len(s) - 1)) + DigitValue(s[Len(s)])

\* float(payload) for a payload that passed the isdigit test: ASCII digits with at
\* most one "." give the decimal value; a non-ASCII digit makes float() raise.
ValueError == [raised |-> "ValueError"]
Float(s) ==
    IF \E i \in 1..Len(s) : s[i] \in OtherDigits THEN ValueError
    ELSE Normalise(DigitsValue(ReplaceFirstDot(s)),
                   IF FirstDot(s) = 0 THEN 0 ELSE Len(s) - FirstDot(s))

\* float(payload) if payload.replace('.', '', 1).isdigit() else 0
ParseNumber(payload) ==
    IF IsDigit(ReplaceFirstDot(payload)) THEN Float(payload) ELSE Zero

\* msg.payload.decode(): BadBytes is a payload that is not valid UTF-8.
BadBytes == <<"0xff">>
Decodes(payload) == payload # BadBytes

Payloads ==
    { <<"5">>, <<"1", ".", "5">>, <<"-", "5">>, <<"x">>, <<>>, <<"sup2">>, BadBytes }

(***************************************************************************)
(* Topics.  A topic is its name together with the set of the substrings    *)
(* the parsers search for that occur in the name, so that Python's         *)
(* `kw in topic` is In(kw, topic).                                         *)
(***************************************************************************)
Topic(name, has) == [name |-> name, has |-> has]
In(kw, topic) == kw \in topic.has

Topics ==
    { Topic("SZE/inverter_1/grid_power/state", {"inverter_1", "grid_power"}),
      Topic("SZE/inverter_1/pv_power/state", {"inverter_1", "pv_power"}),
      Topic("SZE/inverter_1/load_power/state", {"inverter_1", "load_power"}),
      Topic("SZE/inverter_1/output_source_priority/state",
            {"inverter_1", "output_source_priority"}),
      Topic("SZE/inverter_1/charger_source_priority/state",
            {"inverter_1", "charger_source_priority"}),
      Topic("SZE/inverter_1/max_grid_charge_current/state",
            {"inverter_1", "max_grid_charge_current", "current"}),
      Topic("SZE/inverter_1/battery_voltage/state", {"inverter_1", "voltage"}),
      Topic("SZE/total/battery_state_of_charge/state",
            {"total", "battery_state_of_charge", "state_of_charge"}),
      Topic("SZE/total/battery_power/state", {"total", "battery_power"}),
      Topic("SZE/total/grid_power/state", {"total", "grid_power"}),
      Topic("SZE/battery_1/state_of_charge/state", {"battery_1", "state_of_charge"}),
      Topic("SZE/battery_1/voltage/state", {"battery_1", "voltage"}),
      Topic("SZE/battery_1/current/state", {"battery_1", "current"}),
      Topic("SZE/battery_1/total_voltage/state", {"battery_1", "total", "voltage"}),
      Topic("SZE/set/response_message/state", {}) }

TopicNames == { t.name : t \in Topics }

\* The patterns _on_connect subscribes.
SubscribedPatterns ==
    { Prefix \o "/inverter_1/#", Prefix \o "/total/#", Prefix \o "/battery_1/#",
      Prefix \o "/set/response_message/state" }

Messages == [topic : Topics, payload : Payloads]

\* The messages the broker feeds the concurrent aggregator in MqttSpec: a numeric
\* reading, a text reading and a topic no parser knows, each with a payload that
\* parses, one that is coerced, one that makes float() raise and one that does not
\* decode.
FeedMessages ==
    { m \in Messages :
        /\ m.topic.name \in { "SZE/inverter_1/grid_power/state",
                              "SZE/inverter_1/output_source_priority/state",
                              "SZE/set/response_message/state" }
        /\ m.payload \in { <<"1", ".", "5">>, <<"-", "5">>, <<"sup2">>, BadBytes } }

\* datetime.now().isoformat() and datetime.now().strftime("%H:%M:%S")
Iso(t) == [iso |-> t]
Str(s) == [str |-> s]      \* a str value held in a dict
Hms(t) == [hms |-> t]

(***************************************************************************)
(* The parsers.  Each returns the nested dicts after the write, or         *)
(* ValueError when float() raises.                                         *)
(***************************************************************************)
SetNumber(h, obj, key, payload) ==
    IF ParseNumber(payload) = ValueError THEN ValueError
    ELSE [h EXCEPT ![obj][key] = ParseNumber(payload)]

ParseInverterData(h, topic, payload) ==
    IF In("grid_power", topic) THEN SetNumber(h, "grid", "power_w", payload)
    ELSE IF In("pv_power", topic) THEN SetNumber(h, "pv", "power_w", payload)
    ELSE IF In("load_power", topic) THEN SetNumber(h, "load", "power_w", payload)
    ELSE IF In("output_source_priority", topic)
         THEN [h EXCEPT !["inverter"]["output_source"] = Str(payload)]
    ELSE IF In("charger_source_priority", topic)
         THEN [h EXCEPT !["inverter"]["charger_source"] = Str(payload)]
    ELSE IF In("max_grid_charge_current", topic)
         THEN SetNumber(h, "inverter", "max_grid_charge_a", payload)
    ELSE h

ParseTotalData(h, topic, payload) ==
    IF In("battery_state_of_charge", topic)
    THEN SetNumber(h, "battery", "soc_percent", payload)
    ELSE IF In("battery_power", topic) THEN SetNumber(h, "battery", "power_w", payload)
    ELSE IF In("grid_power", topic) THEN SetNumber(h, "grid", "power_w", payload)
    ELSE h

ParseBatteryData(h, topic, payload) ==
    IF In("state_of_charge", topic) THEN SetNumber(h, "battery", "soc_percent", payload)
    ELSE IF In("voltage", topic) THEN SetNumber(h, "battery", "voltage_v", payload)
    ELSE IF In("current", topic) THEN SetNumber(h, "battery", "current_a", payload)
    ELSE h

\* A dispatch that asks for battery_1 first.
ParseByTopicBatteryFirst(h, topic, payload) ==
    IF In("battery_1", topic) THEN ParseBatteryData(h, topic, payload)
    ELSE IF In("inverter_1", topic) THEN ParseInverterData(h, topic, payload)
    ELSE IF In("total", topic) THEN ParseTotalData(h, topic, payload)
    ELSE h

\* The dispatch of _on_message by channel.
ParseByTopic(h, topic, payload) ==
    IF In("inverter_1", topic) THEN ParseInverterData(h, topic, payload)
    ELSE IF In("total", topic) THEN ParseTotalData(h, topic, payload)
    ELSE IF In("battery_1", topic) THEN ParseBatteryData(h, topic, payload)
    ELSE h

(***************************************************************************)
(* Snapshots.  A dict returned by dict.copy() holds copies of the          *)
(* top-level values and the same references to the nested dicts; what a    *)
(* consumer reads through it is Deref.                                     *)
(***************************************************************************)
NestedKeys == {"inverter", "battery", "grid", "pv", "load"}

ShallowCopy(d) == d

Deref(d) == [k \in DOMAIN d |-> IF k \in NestedKeys THEN heap[d[k]] ELSE d[k]]

\* The part of a snapshot that messages write.
MessagePart(s) == [k \in NestedKeys \cup {"timestamp", "last_update"} |-> s[k]]

InitialData ==
    [ timestamp |-> None, inverter |-> "inverter", battery |-> "battery",
      grid |-> "grid", pv |-> "pv", load |-> "load", connected |-> FALSE,
      last_update |-> None, last_connect |-> Absent, last_disconnect |-> Absent ]

InitialHeap ==
    [ inverter |-> [output_source |-> Absent, charger_source |-> Absent,
                    max_grid_charge_a |-> Absent],
      battery |-> [soc_percent |-> Absent, power_w |-> Absent, voltage_v |-> Absent,
                   current_a |-> Absent],
      grid |-> [power_w |-> Absent],
      pv |-> [power_w |-> Absent],
      load |-> [power_w |-> Absent] ]

MqttInit ==
    /\ current_data = InitialData
    /\ heap = InitialHeap
    /\ data_cache = [t \in TopicNames |-> Absent]
    /\ lock = "free"
    /\ client = "None"
    /\ link = "down"
    /\ subscriptions = {}
    /\ connect_ret = "none"
    /\ net_pc = "idle"
    /\ msg = NoMsg
    /\ rd_pc = "idle"
    /\ held = NoSnapshot
    /\ clock = 0
    /\ nmsgs = 0
    /\ nsessions = 0
    /\ msg_exc = "none"
    /\ last_msg = NoMsg
    /\ prefixes = { MessagePart(Deref(InitialData)) }
    /\ ndisconnects = 0
    /\ pub = NoPublish

\* data_cache[topic] = {'value': payload, 'timestamp': datetime.now().isoformat()}
Cached(cache, m, t) ==
    [cache EXCEPT ![m.topic.name] = [value |-> Str(m.payload), timestamp |-> Iso(t)]]

\* current_data['timestamp'] = ...isoformat(); current_data['last_update'] = ...strftime(...)
Stamped(d, t) == [d EXCEPT !.timestamp = Iso(t), !.last_update = Hms(t)]

(***************************************************************************)
(* connect(), run by the thread that starts the aggregator.                *)
(***************************************************************************)
\* A connect() that reports the failure and leaves the network loop running.
ConnectFailsAndRetries ==
    /\ client \in {"None", "created", "stopped"}
    /\ client' = "looping"
    /\ connect_ret' = "False"
    /\ UNCHANGED <<current_data, heap, data_cache, lock, link, subscriptions, net_pc,
                   msg, rd_pc, held, clock, nmsgs, nsessions, msg_exc, last_msg, prefixes,
                   ndisconnects, pub>>
    /\ UNCHANGED <<windows_vars, calc_vars, forecast_vars, config_vars, api_vars>>

\* client.connect() raised: logged, False returned; the client object stays.
ConnectFails ==
    /\ client \in {"None", "created", "stopped"}
    /\ client' = "created"
    /\ connect_ret' = "False"
    /\ UNCHANGED <<current_data, heap, data_cache, lock, link, subscriptions, net_pc,
                   msg, rd_pc, held, clock, nmsgs, nsessions, msg_exc, last_msg, prefixes, ndisconnects, pub>>
    /\ UNCHANGED <<windows_vars, calc_vars, forecast_vars, config_vars, api_vars>>

\* client.connect() and loop_start() succeeded: True is returned, the network
\* thread runs and the broker's CONNACK is still to come.
ConnectSucceeds ==
    /\ client \in {"None", "created", "stopped"}
    /\ client' = "looping"
    /\ link' = "connack"
    /\ connect_ret' = "True"
    /\ UNCHANGED <<current_data, heap, data_cache, lock, subscriptions, net_pc,
                   msg, rd_pc, held, clock, nmsgs, nsessions, msg_exc, last_msg, prefixes, ndisconnects, pub>>
    /\ UNCHANGED <<windows_vars, calc_vars, forecast_vars, config_vars, api_vars>>

\* The loop started by loop_start() reconnects a session that went down.
Reconnect ==
    /\ client = "looping"
    /\ link = "down"
    /\ net_pc = "idle"
    /\ nsessions < MaxSessions
    /\ link' = "connack"
    /\ UNCHANGED <<current_data, heap, data_cache, lock, client, subscriptions,
                   connect_ret, net_pc, msg, rd_pc, held, clock, nmsgs, nsessions,
                   msg_exc, last_msg, prefixes, ndisconnects, pub>>
    /\ UNCHANGED <<windows_vars, calc_vars, forecast_vars, config_vars, api_vars>>

(***************************************************************************)
(* _on_connect, on the network thread.  No lock is taken.                  *)
(***************************************************************************)
\* rc == 0: the four subscriptions, then current_data['connected'] = True.
OnConnectAccepted ==
    /\ net_pc = "idle"
    /\ link = "connack"
    /\ nsessions < MaxSessions
    /\ nsessions' = nsessions + 1
    /\ clock' = clock + 1
    /\ link' = "up"
    /\ subscriptions' = SubscribedPatterns
    /\ current_data' = [current_data EXCEPT !.connected = TRUE]
    /\ net_pc' = "conn_stamp"
    /\ UNCHANGED <<heap, data_cache, lock, client, connect_ret, msg, rd_pc, held,
                   nmsgs, msg_exc, last_msg, prefixes, ndisconnects, pub>>
    /\ UNCHANGED <<windows_vars, calc_vars, forecast_vars, config_vars, api_vars>>

\* current_data['last_connect'] = datetime.now().isoformat()
OnConnectStamp ==
    /\ net_pc = "conn_stamp"
    /\ current_data' = [current_data EXCEPT !.last_connect = Iso(clock)]
    /\ net_pc' = "idle"
    /\ UNCHANGED <<heap, data_cache, lock, client, link, subscriptions, connect_ret,
                   msg, rd_pc, held, clock, nmsgs, nsessions, msg_exc, last_msg, prefixes, ndisconnects, pub>>
    /\ UNCHANGED <<windows_vars, calc_vars, forecast_vars, config_vars, api_vars>>

\* rc != 0: only logged.
OnConnectRefused ==
    /\ net_pc = "idle"
    /\ link = "connack"
    /\ nsessions < MaxSessions
    /\ nsessions' = nsessions + 1
    /\ clock' = clock + 1
    /\ link' = "down"
    /\ UNCHANGED <<current_data, heap, data_cache, lock, client, subscriptions,
                   connect_ret, net_pc, msg, rd_pc, held, nmsgs, msg_exc, last_msg, prefixes, ndisconnects, pub>>
    /\ UNCHANGED <<windows_vars, calc_vars, forecast_vars, config_vars, api_vars>>

(***************************************************************************)
(* _on_disconnect, on the network thread.  No lock is taken.               *)
(***************************************************************************)
OnDisconnectFlag ==
    /\ net_pc = "idle"
    /\ link = "up"
    /\ clock' = clock + 1
    /\ link' = "down"
    /\ subscriptions' = {}
    /\ current_data' = [current_data EXCEPT !.connected = FALSE]
    /\ net_pc' = "disc_stamp"
    /\ UNCHANGED <<heap, data_cache, lock, client, connect_ret, msg, rd_pc, held,
                   nmsgs, nsessions, msg_exc, last_msg, prefixes, ndisconnects, pub>>
    /\ UNCHANGED <<windows_vars, calc_vars, forecast_vars, config_vars, api_vars>>

OnDisconnectStamp ==
    /\ net_pc = "disc_stamp"
    /\ current_data' = [current_data EXCEPT !.last_disconnect = Iso(clock)]
    /\ net_pc' = "idle"
    /\ UNCHANGED <<heap, data_cache, lock, client, link, subscriptions, connect_ret,
                   msg, rd_pc, held, clock, nmsgs, nsessions, msg_exc, last_msg, prefixes, ndisconnects, pub>>
    /\ UNCHANGED <<windows_vars, calc_vars, forecast_vars, config_vars, api_vars>>

(***************************************************************************)
(* disconnect(), run by a thread of the application.  loop_stop() joins    *)
(* the network thread, so it returns once the callback in progress has     *)
(* returned; client.disconnect() then writes DISCONNECT on the open socket *)
(* and paho runs _on_disconnect on the calling thread.  With no client     *)
(* (connect() never called) the method does nothing; with no socket        *)
(* (connect() raised, session already down, disconnect() called before)    *)
(* client.disconnect() returns an error code and no callback runs.         *)
(***************************************************************************)
\* A callback that leaves the flag as it is.
DisconnectedFlagKept(d, t) == [d EXCEPT !.last_disconnect = Iso(t)]

\* A callback that starts the top-level dict afresh.
DisconnectedCleared(d, t) == [InitialData EXCEPT !.last_disconnect = Iso(t)]

\* _on_disconnect applied to the top-level dict at time t.
Disconnected(d, t) == [d EXCEPT !.connected = FALSE, !.last_disconnect = Iso(t)]

HasSocket == client = "looping" /\ link \in {"up", "connack"}

Disconnect ==
    /\ ndisconnects < MaxDisconnects
    /\ net_pc = "idle"
    /\ ndisconnects' = ndisconnects + 1
    /\ client' = IF client = "looping" THEN "stopped" ELSE client
    /\ IF HasSocket
       THEN /\ clock' = clock + 1
            /\ current_data' = Disconnected(current_data, clock')
            /\ link' = "down"
            /\ subscriptions' = {}
       ELSE /\ link' = "down"
            /\ UNCHANGED <<clock, current_data, subscriptions>>
    /\ UNCHANGED <<heap, data_cache, lock, connect_ret, net_pc, msg, rd_pc, held,
                   nmsgs, nsessions, msg_exc, last_msg, prefixes, pub>>
    /\ UNCHANGED <<windows_vars, calc_vars, forecast_vars, config_vars, api_vars>>

(***************************************************************************)
(* publish_command and the three set_* commands, run by a thread of the    *)
(* application.  A call is the pair of arguments publish_command gets.     *)
(* client.publish raises AttributeError when self.client is None,          *)
(* ValueError for a topic with a wildcard and TypeError for a payload that *)
(* is not a string, a number, bytes or None; with no session it returns an *)
(* error code and raises nothing.                                          *)
(***************************************************************************)
Unpublishable == [list |-> TRUE]     \* a value paho does not take as a payload

PublishCall(suffix, value) == [suffix |-> suffix, value |-> value]

SetOutputSourcePriority(priority) ==
    PublishCall("inverter_1/output_source_priority/set", priority)

\* str(amps)
SetMaxGridChargeCurrent(amps) ==
    PublishCall("inverter_1/max_grid_charge_current/set", Str(ToString(amps)))

SetChargerSourcePriority(priority) ==
    PublishCall("inverter_1/charger_source_priority/set", priority)

SetCommands ==
    { SetOutputSourcePriority(Str("Solar first")), SetMaxGridChargeCurrent(30),
      SetChargerSourcePriority(Str("Solar only")) }

WildcardSuffixes == { "inverter_1/#" }

PublishCalls ==
    SetCommands \cup { PublishCall("inverter_1/#", Str("1")),
                       PublishCall("inverter_1/output_source_priority/set", Unpublishable) }

\* topic = f"{self.prefix}/{topic_suffix}"
PublishTopic(suffix) == Prefix \o "/" \o suffix

\* self.client.publish(topic, value)
ClientPublish(c, call) ==
    IF c = "None" THEN "AttributeError"
    ELSE IF call.suffix \in WildcardSuffixes THEN "ValueError"
    ELSE IF call.value = Unpublishable THEN "TypeError"
    ELSE "returned"

\* A handler that reports success whatever the send did.
PublishResultAlwaysTrue(outcome) == TRUE

\* return True after the send; except Exception: return False
PublishResult(outcome) == outcome = "returned"

PublishCommand(call) ==
    /\ pub' = [ call |-> call,
                outcome |-> ClientPublish(client, call),
                sent |-> IF ClientPublish(client, call) = "returned"
                         THEN { [topic |-> PublishTopic(call.suffix),
                                 payload |-> call.value] }
                         ELSE {},
                ret |-> PublishResult(ClientPublish(client, call)) ]
    /\ UNCHANGED <<current_data, heap, data_cache, lock, client, link, subscriptions,
                   connect_ret, net_pc, msg, rd_pc, held, clock, nmsgs, nsessions,
                   msg_exc, last_msg, prefixes, ndisconnects>>
    /\ UNCHANGED <<windows_vars, calc_vars, forecast_vars, config_vars, api_vars>>

\* The session and the commands, without messages and without readers.
CommandNext ==
    \/ ConnectFails
    \/ ConnectSucceeds
    \/ Reconnect
    \/ OnConnectAccepted
    \/ OnConnectStamp
    \/ OnConnectRefused
    \/ OnDisconnectFlag
    \/ OnDisconnectStamp
    \/ Disconnect
    \/ \E call \in PublishCalls : PublishCommand(call)

(***************************************************************************)
(* _on_message, on the network thread.                                     *)
(***************************************************************************)
\* topic = msg.topic; payload = msg.payload.decode().  A payload that does not
\* decode raises before the lock is taken; the handler logs and returns.
OnMessageDecode(m) ==
    /\ net_pc = "idle"
    /\ link = "up"
    /\ nmsgs < MaxMsgs
    /\ nmsgs' = nmsgs + 1
    /\ clock' = clock + 1
    /\ IF Decodes(m.payload)
       THEN /\ msg' = m
            /\ net_pc' = "msg_acquire"
            /\ msg_exc' = "none"
       ELSE /\ msg' = NoMsg
            /\ net_pc' = "idle"
            /\ msg_exc' = "UnicodeDecodeError"
    /\ last_msg' = m
    /\ UNCHANGED <<current_data, heap, data_cache, lock, client, link, subscriptions,
                   connect_ret, rd_pc, held, nsessions, prefixes, ndisconnects, pub>>
    /\ UNCHANGED <<windows_vars, calc_vars, forecast_vars, config_vars, api_vars>>

\* with self.lock:
OnMessageAcquire ==
    /\ net_pc = "msg_acquire"
    /\ lock = "free"
    /\ lock' = "net"
    /\ net_pc' = "msg_parse"
    /\ UNCHANGED <<current_data, heap, data_cache, client, link, subscriptions,
                   connect_ret, msg, rd_pc, held, clock, nmsgs, nsessions, msg_exc,
                   last_msg, prefixes, ndisconnects, pub>>
    /\ UNCHANGED <<windows_vars, calc_vars, forecast_vars, config_vars, api_vars>>

\* A handler that returns from a failed parse with the lock still held.
OnMessageParseKeepsLock ==
    /\ net_pc = "msg_parse"
    /\ data_cache' = Cached(data_cache, msg, clock)
    /\ IF ParseByTopic(heap, msg.topic, msg.payload) = ValueError
       THEN /\ net_pc' = "idle"
            /\ msg_exc' = "ValueError"
            /\ msg' = NoMsg
            /\ UNCHANGED <<heap, lock>>
       ELSE /\ heap' = ParseByTopic(heap, msg.topic, msg.payload)
            /\ net_pc' = "msg_stamp"
            /\ UNCHANGED <<lock, msg_exc, msg>>
    /\ UNCHANGED <<current_data, client, link, subscriptions, connect_ret, rd_pc,
                   held, clock, nmsgs, nsessions, last_msg, prefixes, ndisconnects, pub>>
    /\ UNCHANGED <<windows_vars, calc_vars, forecast_vars, config_vars, api_vars>>

\* data_cache[topic] = {...}; the parser chosen by the topic.  When float()
\* raises, the with block releases the lock and the handler logs and returns.
OnMessageParse ==
    /\ net_pc = "msg_parse"
    /\ data_cache' = Cached(data_cache, msg, clock)
    /\ IF ParseByTopic(heap, msg.topic, msg.payload) = ValueError
       THEN /\ lock' = "free"
            /\ net_pc' = "idle"
            /\ msg_exc' = "ValueError"
            /\ msg' = NoMsg
            /\ UNCHANGED heap
       ELSE /\ heap' = ParseByTopic(heap, msg.topic, msg.payload)
            /\ net_pc' = "msg_stamp"
            /\ UNCHANGED <<lock, msg_exc, msg>>
    /\ UNCHANGED <<current_data, client, link, subscriptions, connect_ret, rd_pc,
                   held, clock, nmsgs, nsessions, last_msg, prefixes, ndisconnects, pub>>
    /\ UNCHANGED <<windows_vars, calc_vars, forecast_vars, config_vars, api_vars>>

\* current_data['timestamp'] = ...; current_data['last_update'] = ...
OnMessageStamp ==
    /\ net_pc = "msg_stamp"
    /\ current_data' = Stamped(current_data, clock)
    /\ net_pc' = "msg_release"
    /\ UNCHANGED <<heap, data_cache, lock, client, link, subscriptions, connect_ret,
                   msg, rd_pc, held, clock, nmsgs, nsessions, msg_exc, last_msg, prefixes, ndisconnects, pub>>
    /\ UNCHANGED <<windows_vars, calc_vars, forecast_vars, config_vars, api_vars>>

\* The end of the with block: the message is completely applied.
OnMessageRelease ==
    /\ net_pc = "msg_release"
    /\ lock' = "free"
    /\ net_pc' = "idle"
    /\ msg' = NoMsg
    /\ prefixes' = prefixes \cup { MessagePart(Deref(current_data)) }
    /\ UNCHANGED <<current_data, heap, data_cache, client, link, subscriptions,
                   connect_ret, rd_pc, held, clock, nmsgs, nsessions, msg_exc, last_msg,
                   ndisconnects, pub>>
    /\ UNCHANGED <<windows_vars, calc_vars, forecast_vars, config_vars, api_vars>>

(***************************************************************************)
(* get_current_data, on a consumer thread.                                 *)
(***************************************************************************)
GetCurrentDataAcquire ==
    /\ rd_pc = "idle"
    /\ lock = "free"
    /\ lock' = "reader"
    /\ rd_pc' = "copy"
    /\ UNCHANGED <<current_data, heap, data_cache, client, link, subscriptions,
                   connect_ret, net_pc, msg, held, clock, nmsgs, nsessions, msg_exc,
                   last_msg, prefixes, ndisconnects, pub>>
    /\ UNCHANGED <<windows_vars, calc_vars, forecast_vars, config_vars, api_vars>>

\* return self.current_data.copy(), and the end of the with block.
GetCurrentDataCopy ==
    /\ rd_pc = "copy"
    /\ held' = ShallowCopy(current_data)
    /\ lock' = "free"
    /\ rd_pc' = "idle"
    /\ UNCHANGED <<current_data, heap, data_cache, client, link, subscriptions,
                   connect_ret, net_pc, msg, clock, nmsgs, nsessions, msg_exc,
                   last_msg, prefixes, ndisconnects, pub>>
    /\ UNCHANGED <<windows_vars, calc_vars, forecast_vars, config_vars, api_vars>>

MqttNext ==
    \/ ConnectFails
    \/ ConnectSucceeds
    \/ Reconnect
    \/ OnConnectAccepted
    \/ OnConnectStamp
    \/ OnConnectRefused
    \/ OnDisconnectFlag
    \/ OnDisconnectStamp
    \/ Disconnect
    \/ \E m \in FeedMessages : OnMessageDecode(m)
    \/ OnMessageAcquire
    \/ OnMessageParse
    \/ OnMessageStamp
    \/ OnMessageRelease
    \/ GetCurrentDataAcquire
    \/ GetCurrentDataCopy

(***************************************************************************)
(* _on_message as one step, for the aggregator driven by one thread alone  *)
(* (no consumer, no session): decode, lock, cache, parse, stamp, unlock.   *)
(***************************************************************************)
OnMessage(m) ==
    /\ net_pc = "idle"
    /\ lock = "free"
    /\ nmsgs < MaxMsgs
    /\ nmsgs' = nmsgs + 1
    /\ clock' = clock + 1
    /\ last_msg' = m
    /\ IF ~Decodes(m.payload)
       THEN /\ msg_exc' = "UnicodeDecodeError"
            /\ UNCHANGED <<data_cache, heap, current_data, prefixes, ndisconnects, pub>>
       ELSE /\ data_cache' = Cached(data_cache, m, clock')
            /\ IF ParseByTopic(heap, m.topic, m.payload) = ValueError
               THEN /\ msg_exc' = "ValueError"
                    /\ UNCHANGED <<heap, current_data, prefixes, ndisconnects, pub>>
               ELSE /\ heap' = ParseByTopic(heap, m.topic, m.payload)
                    /\ current_data' = Stamped(current_data, clock')
                    /\ msg_exc' = "none"
                    /\ prefixes' = prefixes \cup { MessagePart(Deref(current_data)') }
    /\ UNCHANGED <<lock, client, link, subscriptions, connect_ret, net_pc, msg, rd_pc,
                   held, nsessions, ndisconnects, pub>>
    /\ UNCHANGED <<windows_vars, calc_vars, forecast_vars, config_vars, api_vars>>

IngestNext == \E m \in Messages : OnMessage(m)

(***************************************************************************)
(* daily_windows.py.  A time string "HH:MM" is the pair [h, m] of the      *)
(* integers it prints; a time of day is also counted in minutes.           *)
(*                                                                         *)
(* The boundaries are computed in binary floating point (hours as float)   *)
(* and cut back to a string by int(): for the sunrise/sunset minutes       *)
(* listed in the four sets below the product (hour_float - hour) * 60 is   *)
(* just under a whole number and the string is one minute nearer to 00:00  *)
(* than the exact value.  The sets are the IEEE-754 double results of the  *)
(* expressions of calculate_daily_windows for each minute 0..1439.         *)
(***************************************************************************)
MinutesPerDay == 1440
Minutes == 0..(MinutesPerDay - 1)

\* sunrise minutes for which int((sunrise_hour + 1.5 - hour) * 60) loses a minute
LadowaniaStartLoses ==
    { 1, 5, 9, 17, 20, 24, 31, 32, 33, 34, 38, 39, 40, 46, 47, 48, 49, 54, 55, 61, 62, 63,
      64, 65, 69, 77, 78, 79, 80, 84, 91, 92, 93, 94, 98, 99, 100, 106, 107, 108, 109,
      114, 115, 121, 122, 123, 129, 130, 131, 137, 138, 139, 144, 145, 151, 152, 153, 154,
      156, 158, 160, 166, 167, 168, 169, 171, 173, 175, 181, 182, 183, 184, 186, 188, 190,
      197, 198, 199, 201, 203, 205, 211, 212, 213, 214, 216, 218, 220, 226, 227, 228, 229,
      231, 233, 235, 241, 242, 243, 244, 245, 246, 247, 257, 258, 259, 260, 261, 262, 271,
      272, 273, 274, 275, 276, 278, 286, 287, 288, 289, 290, 291, 293, 301, 302, 303, 304,
      305, 306, 307, 317, 318, 319, 320, 321, 322, 331, 332, 333, 334, 335, 336, 338, 346,
      347, 348, 349, 350, 351, 353, 361, 362, 363, 364, 365, 366, 367, 377, 378, 379, 380,
      381, 382, 391, 392, 394, 395, 396, 398, 402, 406, 407, 409, 410, 411, 413, 417, 421,
      422, 424, 425, 426, 428, 432, 436, 437, 439, 440, 441, 443, 447, 451, 452, 454, 455,
      456, 458, 462, 466, 467, 469, 470, 471, 473, 477, 482, 484, 486, 488, 490, 492, 494,
      497, 499, 501, 503, 505, 507, 509, 512, 514, 516, 518, 520, 522, 524, 527, 529, 531,
      533, 535, 537, 539, 542, 544, 546, 548, 550, 552, 554, 557, 559, 561, 563, 565, 567,
      569, 572, 574, 576, 578, 580, 582, 584, 587, 589, 591, 593, 595, 597, 599, 602, 604,
      606, 608, 610, 612, 614, 617, 619, 621, 623, 625, 627, 629, 632, 634, 636, 638, 640,
      642, 644, 647, 649, 651, 653, 655, 657, 659, 662, 664, 666, 668, 670, 672, 674, 677,
      679, 681, 683, 685, 687, 689, 692, 694, 696, 698, 700, 702, 704, 707, 709, 711, 713,
      715, 717, 719, 722, 724, 726, 728, 730, 732, 734, 737, 739, 741, 743, 745, 747, 749,
      752, 754, 756, 758, 760, 762, 764, 767, 769, 771, 773, 775, 777, 779, 782, 784, 786,
      788, 790, 792, 794, 797, 799, 801, 803, 805, 807, 809, 812, 814, 816, 818, 820, 822,
      824, 827, 829, 831, 833, 835, 837, 839, 842, 844, 846, 848, 850, 852, 854, 857, 859,
      861, 863, 865, 867, 869, 871, 872, 874, 878, 879, 880, 882, 886, 887, 889, 893, 894,
      895, 897, 901, 902, 904, 908, 909, 910, 912, 916, 917, 919, 923, 924, 925, 927, 931,
      932, 934, 938, 939, 940, 942, 946, 947, 949, 953, 954, 955, 957, 961, 964, 965, 968,
      969, 972, 973, 976, 979, 980, 983, 984, 987, 988, 991, 994, 995, 998, 999, 1002,
      1003, 1006, 1009, 1010, 1013, 1014, 1017, 1018, 1021, 1024, 1025, 1028, 1029, 1032,
      1033, 1036, 1039, 1040, 1043, 1044, 1047, 1048, 1051, 1054, 1055, 1058, 1059, 1062,
      1063, 1066, 1069, 1070, 1073, 1074, 1077, 1078, 1081, 1084, 1085, 1088, 1089, 1092,
      1093, 1096, 1099, 1100, 1103, 1104, 1107, 1108, 1111, 1114, 1115, 1118, 1119, 1122,
      1123, 1126, 1129, 1130, 1133, 1134, 1137, 1138, 1141, 1144, 1145, 1148, 1149, 1152,
      1153, 1156, 1159, 1160, 1163, 1164, 1167, 1168, 1171, 1174, 1175, 1178, 1179, 1182,
      1183, 1186, 1189, 1190, 1193, 1194, 1197, 1198, 1201, 1204, 1205, 1208, 1209, 1212,
      1213, 1216, 1219, 1220, 1223, 1224, 1227, 1228, 1231, 1234, 1235, 1238, 1239, 1242,
      1243, 1246, 1249, 1250, 1253, 1254, 1257, 1258, 1261, 1264, 1265, 1268, 1269, 1272,
      1273, 1276, 1279, 1280, 1283, 1284, 1287, 1288, 1291, 1294, 1295, 1298, 1299, 1302,
      1303, 1306, 1309, 1310, 1313, 1314, 1317, 1318, 1321, 1324, 1325, 1328, 1329, 1332,
      1333, 1336, 1339, 1340, 1343, 1344, 1347, 1348, 1351, 1354, 1355, 1358, 1359, 1362,
      1363, 1366, 1369, 1370, 1373, 1374, 1377, 1378, 1381, 1384, 1385, 1388, 1389, 1392,
      1393, 1396, 1399, 1400, 1403, 1404, 1407, 1408, 1411, 1414, 1415, 1418, 1419, 1422,
      1423, 1426, 1429, 1430, 1433, 1434, 1437, 1438 }

\* sunset minutes for which sunset_hour - 1.5 + (1/60) loses a minute
LadowaniaEndLoses ==
    { 2, 13, 21, 25, 28, 29, 31, 33, 35, 37, 39, 41, 46, 48, 50, 52, 54, 56, 58, 62, 63,
      66, 70, 73, 74, 78, 81, 82, 85, 86, 88, 91, 92, 94, 98, 99, 100, 102, 106, 107, 113,
      114, 115, 117, 122, 123, 130, 131, 137, 138, 139, 145, 150, 151, 152, 153, 154, 157,
      158, 159, 160, 165, 166, 167, 168, 169, 173, 174, 175, 180, 181, 182, 183, 188, 189,
      190, 191, 196, 197, 198, 199, 203, 204, 205, 210, 211, 212, 213, 214, 217, 218, 219,
      220, 225, 226, 227, 228, 229, 233, 234, 235, 240, 241, 242, 243, 244, 245, 246, 247,
      256, 257, 258, 259, 260, 261, 262, 270, 271, 272, 273, 274, 275, 276, 278, 285, 286,
      287, 288, 289, 290, 291, 293, 300, 301, 302, 303, 304, 305, 306, 307, 316, 317, 318,
      319, 320, 321, 322, 330, 331, 332, 333, 334, 335, 336, 338, 345, 346, 347, 348, 349,
      350, 351, 353, 360, 361, 362, 363, 364, 365, 366, 367, 376, 377, 378, 379, 380, 381,
      382, 390, 391, 392, 393, 394, 395, 396, 398, 405, 406, 407, 408, 409, 410, 411, 413,
      420, 421, 422, 423, 424, 425, 426, 427, 436, 437, 438, 439, 440, 441, 442, 450, 451,
      452, 453, 454, 455, 456, 458, 465, 466, 467, 468, 469, 470, 471, 473, 480, 482, 484,
      486, 488, 490, 492, 494, 497, 499, 501, 503, 505, 507, 509, 510, 512, 514, 516, 518,
      520, 522, 524, 525, 527, 529, 531, 533, 535, 537, 539, 540, 542, 544, 546, 548, 550,
      552, 554, 557, 559, 561, 563, 565, 567, 569, 961, 965, 969, 973, 976, 980, 984, 988,
      991, 995, 999, 1003, 1006, 1010, 1014, 1018, 1021, 1025, 1029, 1033, 1036, 1040,
      1044, 1048, 1050, 1051, 1053, 1054, 1055, 1057, 1058, 1059, 1061, 1062, 1063, 1065,
      1066, 1068, 1069, 1070, 1072, 1073, 1074, 1076, 1077, 1078, 1080, 1081, 1083, 1084,
      1085, 1087, 1088, 1089, 1091, 1092, 1093, 1095, 1096, 1098, 1099, 1100, 1102, 1103,
      1104, 1106, 1107, 1108, 1110, 1111, 1113, 1114, 1115, 1117, 1118, 1119, 1121, 1122,
      1123, 1125, 1126, 1128, 1129, 1130, 1132, 1133, 1134, 1136, 1137, 1138, 1140, 1141,
      1143, 1144, 1145, 1147, 1148, 1149, 1151, 1152, 1153, 1155, 1156, 1158, 1159, 1160,
      1162, 1163, 1164, 1166, 1167, 1168, 1170, 1171, 1173, 1174, 1175, 1177, 1178, 1179,
      1181, 1182, 1183, 1185, 1186, 1188, 1189, 1190, 1192, 1193, 1194, 1196, 1197, 1198,
      1200, 1201, 1203, 1204, 1205, 1207, 1208, 1209, 1211, 1212, 1213, 1215, 1216, 1218,
      1219, 1220, 1222, 1223, 1224, 1226, 1227, 1228, 1230, 1231, 1233, 1234, 1235, 1237,
      1238, 1239, 1241, 1242, 1243, 1245, 1246, 1248, 1249, 1250, 1252, 1253, 1254, 1256,
      1257, 1258, 1260, 1261, 1263, 1264, 1265, 1267, 1268, 1269, 1271, 1272, 1273, 1275,
      1276, 1278, 1279, 1280, 1282, 1283, 1284, 1286, 1287, 1288, 1290, 1291, 1293, 1294,
      1295, 1297, 1298, 1299, 1301, 1302, 1303, 1305, 1306, 1308, 1309, 1310, 1312, 1313,
      1314, 1316, 1317, 1318, 1320, 1321, 1323, 1324, 1325, 1327, 1328, 1329, 1331, 1332,
      1333, 1335, 1336, 1338, 1339, 1340, 1342, 1343, 1344, 1346, 1347, 1348, 1350, 1351,
      1353, 1354, 1355, 1357, 1358, 1359, 1361, 1362, 1363, 1365, 1366, 1368, 1369, 1370,
      1372, 1373, 1374, 1376, 1377, 1378, 1380, 1381, 1383, 1384, 1385, 1387, 1388, 1389,
      1391, 1392, 1393, 1395, 1396, 1398, 1399, 1400, 1402, 1403, 1404, 1406, 1407, 1408,
      1410, 1411, 1413, 1414, 1415, 1417, 1418, 1419, 1421, 1422, 1423, 1425, 1426, 1428,
      1429, 1430, 1432, 1433, 1434, 1436, 1437, 1438 }

\* sunset minutes for which sunset_hour - 1.5 loses a minute
WieczorneStartLoses ==
    { 2, 3, 6, 10, 13, 14, 18, 21, 22, 25, 26, 28, 29, 62, 63, 66, 70, 73, 74, 78, 81, 82,
      85, 86, 88, 89, 91, 92, 94, 98, 99, 100, 102, 106, 107, 114, 115, 117, 121, 122,
      123, 129, 130, 131, 137, 138, 139, 144, 145, 151, 152, 153, 154, 158, 159, 160, 166,
      167, 168, 169, 174, 175, 181, 182, 183, 189, 190, 191, 197, 198, 199, 204, 205, 211,
      212, 213, 214, 218, 219, 220, 226, 227, 228, 229, 234, 235, 241, 242, 243, 244, 245,
      246, 247, 257, 258, 259, 260, 261, 262, 271, 272, 273, 274, 275, 276, 278, 286, 287,
      288, 289, 290, 291, 293, 301, 302, 303, 304, 305, 306, 307, 317, 318, 319, 320, 321,
      322, 331, 332, 333, 334, 335, 336, 338, 346, 347, 348, 349, 350, 351, 353, 361, 362,
      363, 364, 365, 366, 367, 377, 378, 379, 380, 381, 382, 391, 392, 393, 394, 395, 396,
      398, 406, 407, 408, 409, 410, 411, 413, 421, 422, 423, 424, 425, 426, 427, 437, 438,
      439, 440, 441, 442, 451, 452, 453, 454, 455, 456, 458, 466, 467, 468, 469, 470, 471,
      473, 482, 484, 486, 488, 490, 492, 494, 497, 499, 501, 503, 505, 507, 509, 512, 514,
      516, 518, 520, 522, 524, 527, 529, 531, 533, 535, 537, 539, 542, 544, 546, 548, 550,
      552, 554, 557, 559, 561, 563, 565, 567, 569, 572, 574, 576, 578, 580, 582, 584, 587,
      589, 591, 593, 595, 597, 599, 602, 604, 606, 608, 610, 612, 614, 617, 619, 621, 623,
      625, 627, 629, 632, 634, 636, 638, 640, 642, 644, 647, 649, 651, 653, 655, 657, 659,
      662, 664, 666, 668, 670, 672, 674, 677, 679, 681, 683, 685, 687, 689, 692, 694, 696,
      698, 700, 702, 704, 707, 709, 711, 713, 715, 717, 719, 722, 724, 726, 728, 730, 732,
      734, 737, 739, 741, 743, 745, 747, 749, 752, 754, 756, 758, 760, 762, 764, 767, 769,
      771, 773, 775, 777, 779, 782, 784, 786, 788, 790, 792, 794, 797, 799, 801, 803, 805,
      807, 809, 812, 814, 816, 818, 820, 822, 824, 827, 829, 831, 833, 835, 837, 839, 842,
      844, 846, 848, 850, 852, 854, 857, 859, 861, 863, 865, 867, 869, 872, 874, 876, 878,
      880, 882, 884, 887, 889, 891, 893, 895, 897, 899, 902, 904, 906, 908, 910, 912, 914,
      917, 919, 921, 923, 925, 927, 929, 932, 934, 936, 938, 940, 942, 944, 947, 949, 951,
      953, 955, 957, 959, 961, 964, 965, 968, 969, 972, 973, 976, 979, 980, 983, 984, 987,
      988, 991, 994, 995, 998, 999, 1002, 1003, 1006, 1009, 1010, 1013, 1014, 1017, 1018,
      1021, 1024, 1025, 1028, 1029, 1032, 1033, 1036, 1039, 1040, 1043, 1044, 1047, 1048,
      1051, 1054, 1055, 1058, 1059, 1062, 1063, 1066, 1069, 1070, 1073, 1074, 1077, 1078,
      1081, 1084, 1085, 1088, 1089, 1092, 1093, 1096, 1099, 1100, 1103, 1104, 1107, 1108,
      1111, 1114, 1115, 1118, 1119, 1122, 1123, 1126, 1129, 1130, 1133, 1134, 1137, 1138,
      1141, 1144, 1145, 1148, 1149, 1152, 1153, 1156, 1159, 1160, 1163, 1164, 1167, 1168,
      1171, 1174, 1175, 1178, 1179, 1182, 1183, 1186, 1189, 1190, 1193, 1194, 1197, 1198,
      1201, 1204, 1205, 1208, 1209, 1212, 1213, 1216, 1219, 1220, 1223, 1224, 1227, 1228,
      1231, 1234, 1235, 1238, 1239, 1242, 1243, 1246, 1249, 1250, 1253, 1254, 1257, 1258,
      1261, 1264, 1265, 1268, 1269, 1272, 1273, 1276, 1279, 1280, 1283, 1284, 1287, 1288,
      1291, 1294, 1295, 1298, 1299, 1302, 1303, 1306, 1309, 1310, 1313, 1314, 1317, 1318,
      1321, 1324, 1325, 1328, 1329, 1332, 1333, 1336, 1339, 1340, 1343, 1344, 1347, 1348,
      1351, 1354, 1355, 1358, 1359, 1362, 1363, 1366, 1369, 1370, 1373, 1374, 1377, 1378,
      1381, 1384, 1385, 1388, 1389, 1392, 1393, 1396, 1399, 1400, 1403, 1404, 1407, 1408,
      1411, 1414, 1415, 1418, 1419, 1422, 1423, 1426, 1429, 1430, 1433, 1434, 1437, 1438 }

\* sunrise minutes for which sunrise_hour + 1.5 - (1/60) loses a minute
NocneEndLoses ==
    { 32, 33, 34, 39, 40, 47, 48, 49, 55, 62, 63, 64, 65, 78, 79, 80, 92, 93, 94, 99, 100,
      107, 108, 109, 115, 122, 123, 130, 131, 138, 139, 145, 152, 153, 154, 156, 158, 160,
      167, 168, 169, 171, 173, 175, 182, 183, 184, 186, 188, 190, 198, 199, 201, 203, 205,
      212, 213, 214, 216, 218, 220, 227, 228, 229, 231, 233, 235, 242, 243, 244, 245, 246,
      247, 258, 259, 260, 261, 262, 272, 273, 274, 275, 276, 278, 287, 288, 289, 290, 291,
      293, 302, 303, 304, 305, 306, 307, 318, 319, 320, 321, 322, 332, 333, 334, 335, 336,
      338, 347, 348, 349, 350, 351, 353, 362, 363, 364, 365, 366, 367, 378, 379, 380, 381,
      382, 391, 392, 393, 394, 395, 396, 397, 398, 399, 401, 402, 403, 405, 406, 407, 408,
      409, 410, 411, 412, 413, 414, 416, 417, 418, 420, 421, 422, 423, 424, 425, 426, 427,
      428, 429, 431, 432, 433, 435, 436, 437, 438, 439, 440, 441, 442, 443, 444, 446, 447,
      448, 450, 451, 452, 453, 454, 455, 456, 457, 458, 459, 461, 462, 463, 465, 466, 467,
      468, 469, 470, 471, 472, 473, 474, 476, 477, 478, 480, 482, 483, 484, 485, 486, 487,
      488, 489, 490, 491, 492, 493, 494, 495, 497, 498, 499, 500, 501, 502, 503, 504, 505,
      506, 507, 508, 509, 510, 512, 513, 514, 515, 516, 517, 518, 519, 520, 521, 522, 523,
      524, 525, 527, 528, 529, 530, 531, 532, 533, 534, 535, 536, 537, 538, 539, 540, 542,
      543, 544, 545, 546, 547, 548, 549, 550, 551, 552, 553, 554, 555, 557, 558, 559, 560,
      561, 562, 563, 564, 565, 566, 567, 568, 569, 570, 572, 573, 574, 575, 576, 577, 578,
      579, 580, 581, 582, 583, 584, 585, 587, 588, 589, 590, 591, 592, 593, 594, 595, 596,
      597, 598, 599, 600, 602, 603, 604, 605, 606, 607, 608, 609, 610, 611, 612, 613, 614,
      615, 617, 618, 619, 620, 621, 622, 623, 624, 625, 626, 627, 628, 629, 630, 632, 633,
      634, 635, 636, 637, 638, 639, 640, 641, 642, 643, 644, 645, 647, 648, 649, 650, 651,
      652, 653, 654, 655, 656, 657, 658, 659, 660, 662, 663, 664, 665, 666, 667, 668, 669,
      670, 671, 672, 673, 674, 675, 677, 678, 679, 680, 681, 682, 683, 684, 685, 686, 687,
      688, 689, 690, 692, 693, 694, 695, 696, 697, 698, 699, 700, 701, 702, 703, 704, 705,
      707, 708, 709, 710, 711, 712, 713, 714, 715, 716, 717, 718, 719, 720, 722, 723, 724,
      725, 726, 727, 728, 729, 730, 731, 732, 733, 734, 735, 737, 738, 739, 740, 741, 742,
      743, 744, 745, 746, 747, 748, 749, 750, 752, 753, 754, 755, 756, 757, 758, 759, 760,
      761, 762, 763, 764, 765, 767, 768, 769, 770, 771, 772, 773, 774, 775, 776, 777, 778,
      779, 780, 782, 783, 784, 785, 786, 787, 788, 789, 790, 791, 792, 793, 794, 795, 797,
      798, 799, 800, 801, 802, 803, 804, 805, 806, 807, 808, 809, 810, 812, 813, 814, 815,
      816, 817, 818, 819, 820, 821, 822, 823, 824, 825, 827, 828, 829, 830, 831, 832, 833,
      834, 835, 836, 837, 838, 839, 840, 842, 843, 844, 845, 846, 847, 848, 849, 850, 851,
      852, 853, 854, 855, 857, 858, 859, 860, 861, 862, 863, 864, 865, 866, 867, 868, 869,
      870, 871, 872, 879, 880, 887, 894, 895, 902, 909, 910, 917, 924, 925, 932, 939, 940,
      947, 954, 955, 965, 969, 973, 980, 984, 988, 995, 999, 1003, 1010, 1014, 1018, 1025,
      1029, 1033, 1040, 1044, 1048, 1055, 1059, 1063, 1070, 1074, 1078, 1085, 1089, 1093,
      1100, 1104, 1108, 1115, 1119, 1123, 1130, 1134, 1138, 1145, 1149, 1153, 1160, 1164,
      1168, 1175, 1179, 1183, 1190, 1194, 1198, 1205, 1209, 1213, 1220, 1224, 1228, 1235,
      1239, 1243, 1250, 1254, 1258, 1265, 1269, 1273, 1280, 1284, 1288, 1295, 1299, 1303,
      1310, 1314, 1318, 1325, 1329, 1333, 1340, 1344, 1348, 1355, 1359, 1363, 1370, 1374,
      1378, 1385, 1389, 1393, 1400, 1404, 1408, 1415, 1419, 1423, 1430, 1434, 1438 }

HM(h, m) == [h |-> h, m |-> m]

\* int() and the division it implies cut toward zero.
TruncDiv(a, b) == IF a >= 0 THEN a \div b ELSE 0 - ((0 - a) \div b)

\* sunrise.strftime("%H:%M")
Strftime(t) == HM(t \div 60, t % 60)

\* hour_to_str of a float that is `exact` minutes, after the loss of a minute.
HourToStr(exact, loses) ==
    LET x == IF ~loses THEN exact ELSE IF exact > 0 THEN exact - 1 ELSE exact + 1
    IN HM(TruncDiv(x, 60), x - 60 * TruncDiv(x, 60))

LadowaniaStart(sunrise) == HourToStr(sunrise + 90, sunrise \in LadowaniaStartLoses)
LadowaniaEnd(sunset) == HourToStr(sunset - 90 + 1, sunset \in LadowaniaEndLoses)
WieczorneStart(sunset) == HourToStr(sunset - 90, sunset \in WieczorneStartLoses)
NocneEnd(sunrise) == HourToStr(sunrise + 90 - 1, sunrise \in NocneEndLoses)

\* The dict returned from the except branch.
FallbackWindows ==
    [ wschod_slonca |-> HM(7, 33), zachod_slonca |-> HM(15, 32),
      poczatek_okna_ladowania |-> HM(9, 3), koniec_okna_ladowania |-> HM(14, 2),
      poczatek_okna_wieczornego |-> HM(14, 2), koniec_okna_wieczornego |-> HM(23, 59),
      poczatek_okna_nocnego |-> HM(0, 0), koniec_okna_nocnego |-> HM(9, 2) ]

\* What the configuration and the astronomy step give calculate_daily_windows on
\* a day: a sunrise and a sunset (minutes of the day, Europe/Warsaw wall clock),
\* or a failure (no usable coordinates, no config loader, no sunrise that day).
SunFailure == [failed |-> TRUE]
Sun(sunrise, sunset) == [sunrise |-> sunrise, sunset |-> sunset]

\* What the configuration gives lines 29-37: "no_loader" (the import of the
\* config loader fails), "no_config" (get_system_config returns None),
\* "malformed" (the coordinates do not split into two numbers), "no_coordinates"
\* (no "coordinates" entry: the default string of line 34 is used), "valid".
ConfigKinds == {"no_loader", "no_config", "malformed", "no_coordinates", "valid"}
FailingConfigs == {"no_loader", "no_config", "malformed"}

\* Lines 29-53 with the configuration's failures going unnoticed.
SunSeenDespiteConfig(cfg, s) == s

\* What lines 29-53 end with: SunFailure when an exception left them, else the
\* sunrise and sunset astral computed for the location, s.
SunSeen(cfg, s) == IF cfg \in FailingConfigs THEN SunFailure ELSE s

\* calculate_daily_windows() from line 55 on, and its except branch.
CalculateDailyWindows(s) ==
    IF s = SunFailure THEN FallbackWindows
    ELSE [ wschod_slonca |-> Strftime(s.sunrise),
           zachod_slonca |-> Strftime(s.sunset),
           poczatek_okna_ladowania |-> LadowaniaStart(s.sunrise),
           koniec_okna_ladowania |-> LadowaniaEnd(s.sunset),
           poczatek_okna_wieczornego |-> WieczorneStart(s.sunset),
           koniec_okna_wieczornego |-> HM(23, 59),
           poczatek_okna_nocnego |-> HM(0, 0),
           koniec_okna_nocnego |-> NocneEnd(s.sunrise) ]

\* parse_time of get_current_window_simple: h + m/60 as a float.  Two such floats
\* compare as the minute counts do (they differ by at least 1/60), so the float is
\* its minute count.  The strings of calculate_daily_windows always split into two
\* integers: the except branch (0.0) is never taken.
ParseTime(str) == 60 * str.h + str.m

\* The decision of get_current_window_simple without the clause for a night
\* window that runs over midnight.
ClassifyWindowNoWrap(now, w) ==
    LET loading_start == ParseTime(w.poczatek_okna_ladowania)
        loading_end == ParseTime(w.koniec_okna_ladowania)
        evening_start == ParseTime(w.poczatek_okna_wieczornego)
        evening_end == ParseTime(w.koniec_okna_wieczornego)
        night_start == ParseTime(w.poczatek_okna_nocnego)
        night_end == ParseTime(w.koniec_okna_nocnego)
    IN IF evening_start <= now /\ now < evening_end THEN "evening_window"
       ELSE IF night_start <= now /\ now < night_end THEN "night_window"
       ELSE IF loading_start <= now /\ now < loading_end THEN "loading_window"
       ELSE "None"

\* The decision of get_current_window_simple for current_hour = now minutes.
ClassifyWindow(now, w) ==
    LET loading_start == ParseTime(w.poczatek_okna_ladowania)
        loading_end == ParseTime(w.koniec_okna_ladowania)
        evening_start == ParseTime(w.poczatek_okna_wieczornego)
        evening_end == ParseTime(w.koniec_okna_wieczornego)
        night_start == ParseTime(w.poczatek_okna_nocnego)
        night_end == ParseTime(w.koniec_okna_nocnego)
    IN IF evening_start <= now /\ now < evening_end THEN "evening_window"
       ELSE IF \/ (night_start <= now /\ now < night_end)
               \/ (night_end < night_start /\ (now >= night_start \/ now < night_end))
            THEN "night_window"
       ELSE IF loading_start <= now /\ now < loading_end THEN "loading_window"
       ELSE "None"

\* The sunrise and sunset minutes the model draws a day from: midnight edges,
\* 04:31 (night ends 06:00), 07:33 and 15:32 (the documented example), 10:08 and
\* 12:22 (a day under three hours), 20:45 (summer), late evening.
SunMinutes == {0, 29, 89, 271, 453, 608, 742, 932, 1245, 1350, 1439}

SunChoices ==
    { s \in { Sun(a, b) : a \in SunMinutes, b \in SunMinutes } : s.sunrise # s.sunset }
      \cup { SunFailure }

\* The sun times of the default location of line 34 (51.29 N, 22.82 E): the
\* documented winter day and a summer day.
DefaultLocationSuns == { Sun(453, 932), Sun(271, 1245) }

\* The days the model draws: a configuration and what astral gives, or would
\* give, for the location.
DayChoices ==
    { [config |-> "valid", sun |-> s] : s \in SunChoices }
      \cup { [config |-> "no_coordinates", sun |-> s] : s \in DefaultLocationSuns }
      \cup { [config |-> c, sun |-> s] : c \in FailingConfigs,
                                         s \in { SunFailure, Sun(453, 932) } }

NoWindows == [no_windows |-> TRUE]

WindowsInit ==
    /\ wnow = 0
    /\ calls = <<>>
    /\ config = "valid"
    /\ sun = SunFailure
    /\ windows = NoWindows
    /\ cls_now = -1
    /\ cls_out = "none"

\* The environment fixes the day and the configuration before the calls.
NewDay(cfg, s) ==
    /\ windows = NoWindows
    /\ cls_now = -1
    /\ config' = cfg
    /\ sun' = s
    /\ UNCHANGED <<windows, cls_now, cls_out>>
    /\ UNCHANGED <<mqtt_vars, config_vars, api_vars, calc_vars, forecast_vars>>

\* A call of calculate_daily_windows().
CalculateDailyWindowsCall ==
    /\ windows' = CalculateDailyWindows(SunSeen(config, sun))
    /\ UNCHANGED <<config, sun, cls_now, cls_out>>
    /\ UNCHANGED <<mqtt_vars, config_vars, api_vars, calc_vars, forecast_vars>>

\* A call of get_current_window_simple(current_time), which itself calls
\* calculate_daily_windows().  One classification is followed per behaviour.
GetCurrentWindowSimple(now) ==
    /\ cls_now = -1
    /\ windows' = CalculateDailyWindows(SunSeen(config, sun))
    /\ cls_now' = now
    /\ cls_out' = ClassifyWindow(now, windows')
    /\ UNCHANGED <<config, sun>>
    /\ UNCHANGED <<mqtt_vars, config_vars, api_vars, calc_vars, forecast_vars>>

WindowsNext ==
    \/ \E e \in DayChoices : NewDay(e.config, e.sun)
    \/ CalculateDailyWindowsCall
    \/ \E now \in Minutes : GetCurrentWindowSimple(now)

\* today = datetime.now().date(), as a day number.
TodayRounded(now) == (now + 720) \div MinutesPerDay
Today(now) == now \div MinutesPerDay

\* sun(city.observer, date=today, tzinfo=city.timezone): astral is a function of
\* the location and the date.  The table stands for it on three dates at the
\* configured location (a winter day, a day under three hours, a polar night
\* for which astral raises) and at the default location of line 34.
Astral(cfg, date) ==
    IF cfg = "no_coordinates"
    THEN (IF date = 0 THEN Sun(452, 933) ELSE Sun(271, 1245))
    ELSE CASE date = 0 -> Sun(453, 932)
           [] date = 1 -> Sun(608, 742)
           [] OTHER -> SunFailure

MaxCalls == 3       \* calls of calculate_daily_windows followed in one behaviour

\* The moments the wall clock is looked at: three of day 0, one of day 1, one of
\* day 2.
ClockTimes == {0, 600, 1400, 2000, 3000}

\* The wall clock advances.
ClockAdvances(t) ==
    /\ t > wnow
    /\ wnow' = t
    /\ UNCHANGED <<calls, windows_vars, mqtt_vars, config_vars, api_vars, forecast_vars>>

\* The configuration file is edited and reloaded.
ConfigChanges(cfg) ==
    /\ cfg # config
    /\ config' = cfg
    /\ UNCHANGED <<sun, windows, cls_now, cls_out, calc_vars, mqtt_vars, config_vars, api_vars, forecast_vars>>

\* A call of calculate_daily_windows() at the wall-clock time wnow.
CalculateDailyWindowsAt ==
    /\ Len(calls) < MaxCalls
    /\ sun' = Astral(config, Today(wnow))
    /\ windows' = CalculateDailyWindows(SunSeen(config, sun'))
    /\ calls' = Append(calls, [at |-> wnow, config |-> config, out |-> windows'])
    /\ UNCHANGED <<config, cls_now, cls_out, wnow, mqtt_vars, config_vars, api_vars, forecast_vars>>

CalculatorNext ==
    \/ \E t \in ClockTimes : ClockAdvances(t)
    \/ \E cfg \in ConfigKinds : ConfigChanges(cfg)
    \/ CalculateDailyWindowsAt

\* The decision of lines 133-149 taken on its own, for window strings of any
\* order: the boundaries and the times the decision is given.
DecisionEdges == {0, 360, 720, 1410}
DecisionTimes == {0, 359, 360, 719, 720, 1409, 1410, 1439}

DecisionWindows ==
    { [ wschod_slonca |-> HM(7, 33), zachod_slonca |-> HM(15, 32),
        poczatek_okna_ladowania |-> Strftime(ls), koniec_okna_ladowania |-> Strftime(le),
        poczatek_okna_wieczornego |-> Strftime(es), koniec_okna_wieczornego |-> Strftime(ee),
        poczatek_okna_nocnego |-> Strftime(ns), koniec_okna_nocnego |-> Strftime(ne) ] :
      ls \in DecisionEdges, le \in DecisionEdges, es \in DecisionEdges,
      ee \in DecisionEdges, ns \in DecisionEdges, ne \in DecisionEdges }

\* Lines 133-149 run on the windows w at the time now.
Decide(now, w) ==
    /\ windows' = w
    /\ cls_now' = now
    /\ cls_out' = ClassifyWindow(now, w)
    /\ UNCHANGED <<config, sun>>
    /\ UNCHANGED <<mqtt_vars, config_vars, api_vars, calc_vars, forecast_vars>>

DecisionNext ==
    /\ cls_now = -1
    /\ \E now \in DecisionTimes, w \in DecisionWindows : Decide(now, w)

(***************************************************************************)
(* pv_forecast.py.  Times are minutes counted from 00:00 of the forecast's *)
(* date in TIMEZONE (fixed UTC+1).  Energy is counted in tenths of a Wh     *)
(* (1 kWh = 10000) so that the month factors, given in tenths, stay whole.  *)
(***************************************************************************)
\* MONTH_FACTORS, in tenths.
MONTH_FACTORS ==
    [ mo \in 1..12 |->
        CASE mo \in {1, 12} -> 5 [] mo \in {2, 11} -> 6 [] mo = 3 -> 7
          [] mo \in {4, 10} -> 8 [] mo = 9 -> 9 [] OTHER -> 10 ]

\* MONTH_FACTORS.get(month, 1.0)
MonthFactor(month) == IF month \in DOMAIN MONTH_FACTORS THEN MONTH_FACTORS[month] ELSE 10

\* TIMEZONE = timezone(timedelta(hours=1)), in minutes: a key is read as UTC and
\* moved to TIMEZONE.
TzOffset == 60

\* A key of the forecast mapping: "iso" parses at once, "short" parses once ":00"
\* is appended, "bad" makes datetime.fromisoformat raise both times.
Key(fmt, t) == [fmt |-> fmt, t |-> t]
Sample(key, power) == [key |-> key, power |-> power]
NonNumeric == -1      \* a power value that is not a number (a JSON string or null)

\* What a call gives back: a value, or the exception it raises.
Value(v) == [value |-> v]
Raised(what) == [raised |-> what]
IsRaised(x) == "raised" \in DOMAIN x

\* forecast_data: a mapping (its entries in the order of the JSON document), or
\* a "result" that is a JSON list, string or number.
Mapping(q) == [mapping |-> q]
NotAMapping == [not_a_mapping |-> TRUE]
IsMapping(d) == "mapping" \in DOMAIN d

\* datetime.fromisoformat(dt_str).replace(tzinfo=timezone.utc).astimezone(TIMEZONE),
\* with the retry of the except branch.
ParseKey(key) == IF key.fmt = "bad" THEN Raised("ValueError") ELSE Value(key.t + TzOffset)

\* from_time = None
NoFromTime == -1

\* The loop with the window closed at its end: start <= dt <= end.
RECURSIVE EnergyLoopClosed(_, _, _, _, _, _)
EnergyLoopClosed(series, i, acc, start, end, from_time) ==
    IF i > Len(series) THEN Value(acc)
    ELSE LET dt == ParseKey(series[i].key)
         IN IF IsRaised(dt) THEN dt
            ELSE IF from_time # NoFromTime /\ dt.value < from_time
                 THEN EnergyLoopClosed(series, i + 1, acc, start, end, from_time)
            ELSE IF start <= dt.value /\ dt.value <= end
                 THEN IF series[i].power = NonNumeric THEN Raised("TypeError")
                      ELSE EnergyLoopClosed(series, i + 1, acc + series[i].power,
                                            start, end, from_time)
            ELSE EnergyLoopClosed(series, i + 1, acc, start, end, from_time)

\* The loop of calculate_energy from entry i on, total_wh so far being acc: the
\* total, or the exception that ends the loop.  from_time is NoFromTime for None.
RECURSIVE EnergyLoop(_, _, _, _, _, _)
EnergyLoop(series, i, acc, start, end, from_time) ==
    IF i > Len(series) THEN Value(acc)
    ELSE LET dt == ParseKey(series[i].key)
         IN IF IsRaised(dt) THEN dt
            ELSE IF from_time # NoFromTime /\ dt.value < from_time
                 THEN EnergyLoop(series, i + 1, acc, start, end, from_time)
            ELSE IF start <= dt.value /\ dt.value < end
                 THEN IF series[i].power = NonNumeric THEN Raised("TypeError")
                      ELSE EnergyLoop(series, i + 1, acc + series[i].power,
                                      start, end, from_time)
            ELSE EnergyLoop(series, i + 1, acc, start, end, from_time)

\* calculate_energy that, given from_time, counts every sample from from_time
\* on, whatever the window.
CalculateEnergyFromTimeOnly(forecast_data, start, end, from_time, mo) ==
    IF ~IsMapping(forecast_data) THEN Raised("AttributeError")
    ELSE LET total_wh == IF from_time = NoFromTime
                         THEN EnergyLoop(forecast_data.mapping, 1, 0, start, end, from_time)
                         ELSE EnergyLoop(forecast_data.mapping, 1, 0, from_time,
                                         from_time + MinutesPerDay, from_time)
         IN IF IsRaised(total_wh) THEN total_wh
            ELSE Value(total_wh.value * MonthFactor(mo))

\* calculate_energy(forecast_data, start, end, from_time) in the month `month`:
\* (total_wh / 1000) * factor, in tenths of a Wh, or the exception raised.
CalculateEnergy(forecast_data, start, end, from_time, mo) ==
    IF ~IsMapping(forecast_data) THEN Raised("AttributeError")
    ELSE LET total_wh == EnergyLoop(forecast_data.mapping, 1, 0, start, end, from_time)
         IN IF IsRaised(total_wh) THEN total_wh
            ELSE Value(total_wh.value * MonthFactor(mo))

\* round(energia_kwh, 2): hundredths of a kWh.  The sample powers of the model
\* are whole hundreds of watts, for which no rounding tie occurs.
Round2(e) == (e + 50) \div 100

(***************************************************************************)
(* fetch_forecast.                                                         *)
(***************************************************************************)
\* What requests.get() and the server give one attempt.  result: a Mapping, or
\* NotAMapping, or NoResultKey (the body has no "result", or is not JSON).
\* remaining: X-Ratelimit-Remaining as sent, AbsentHeader, or GarbageHeader.
NoResultKey == [no_result |-> TRUE]
RetryFetch == [retry |-> TRUE]
AbsentHeader == -1
GarbageHeader == -2
RequestException == [kind |-> "exception"]
StatusResponse(code) == [kind |-> "status", code |-> code]
OkResponse(result, remaining) == [kind |-> "ok", result |-> result, remaining |-> remaining]


\* int(headers.get('X-Ratelimit-Remaining', 12))
Remaining(resp) == IF resp.remaining = AbsentHeader THEN 12 ELSE resp.remaining

\* fetch_forecast with the status test of line 61 left out: the body of an error
\* response is handed back as if it were the forecast.
FetchOutcomeIgnoringStatus(resp) ==
    IF resp.kind = "exception" THEN None
    ELSE IF resp.kind = "status" THEN Mapping(<< Sample(Key("iso", 540), 1000) >>)
    ELSE IF resp.result = NoResultKey THEN None
    ELSE IF resp.remaining = GarbageHeader THEN None
    ELSE IF (IF resp.remaining = AbsentHeader THEN 12 ELSE resp.remaining) < 1
         THEN RetryFetch
    ELSE resp.result

\* One pass through fetch_forecast: None, the data, or RetryFetch when the code
\* sleeps and calls itself again.  Every exception inside is caught and gives None.
FetchOutcome(resp) ==
    IF resp.kind = "exception" THEN None
    ELSE IF resp.kind = "status" THEN None
    ELSE IF resp.result = NoResultKey THEN None
    ELSE IF resp.remaining = GarbageHeader THEN None
    ELSE IF Remaining(resp) < 1 THEN RetryFetch
    ELSE resp.result

\* `not forecast_data`
NotForecastData(d) == d = None \/ d = Mapping(<<>>)

(***************************************************************************)
(* The inputs the forecast model draws from.                               *)
(***************************************************************************)
MaxSamples == 2     \* entries of a forecast mapping given to calculate_energy
MaxTicks == 3       \* scheduled ticks in one behaviour

SampleChoices ==
    { Sample(Key("iso", t), w) : t \in {540, 600, 660}, w \in {1000, 2000} }
      \cup { Sample(Key("short", 600), 1000), Sample(Key("bad", 600), 1000),
             Sample(Key("iso", 600), NonNumeric) }

RECURSIVE SeriesUpTo(_)
SeriesUpTo(n) ==
    IF n = 0 THEN { <<>> }
    ELSE SeriesUpTo(n - 1) \cup
         { Append(q, x) : q \in { r \in SeriesUpTo(n - 1) : Len(r) = n - 1 },
                          x \in SampleChoices }

\* A mapping has one entry per key.
DistinctKeys(q) == \A i, j \in 1..Len(q) : q[i].key = q[j].key => i = j

EnergySeries == { q \in SeriesUpTo(MaxSamples) : DistinctKeys(q) }

WindowEdges == {540, 600, 660, 720, 780}

\* The mappings the server sends in ForecastSpec.
FeedSeries ==
    { <<>>,
      << Sample(Key("iso", 540), 1000), Sample(Key("iso", 720), 2000) >>,
      << Sample(Key("bad", 600), 1000) >>,
      << Sample(Key("iso", 660), NonNumeric) >> }

Responses ==
    { RequestException, StatusResponse(429), StatusResponse(500) }
      \cup { OkResponse(Mapping(q), 5) : q \in FeedSeries }
      \cup { OkResponse(r, 5) : r \in { NotAMapping, NoResultKey } }
      \cup { OkResponse(Mapping(q), h) : q \in { r \in FeedSeries : Len(r) = 2 },
                                         h \in {0, AbsentHeader, GarbageHeader} }

\* The days make_forecast runs on in ForecastSpec: no usable configuration (the
\* fallback windows), the documented example day, a summer day, and a day at the
\* edge of the midnight sun, the sun setting at 00:29 (the loading window then
\* ends at "00:-59").
ForecastSuns == { SunFailure, Sun(453, 932), Sun(271, 1245), Sun(89, 29) }

\* The months the forecaster is started in in ForecastSpec (factors 0.5, 0.7,
\* 0.9): a winter month, the month summer time begins in, a summer month.
ForecastMonths == {1, 3, 9}

\* The offsets of the machine's wall clock from UTC, in minutes.
WinterOffset == 60
SummerOffset == 120

\* Europe/Warsaw: winter time from November to February, summer time from April
\* to September, and the change inside March and inside October.
OffsetAllowed(mo, offset) ==
    CASE mo \in {11, 12, 1, 2} -> offset = WinterOffset
      [] mo \in 4..9 -> offset = SummerOffset
      [] OTHER -> offset \in {WinterOffset, SummerOffset}

\* The calendar of a behaviour: local day 1 lies in month `month`, and the next
\* month begins on local day `first` (NoMonthEnd: not within the behaviour).
NoMonthEnd == 99
Calendar(mo, first) == [month |-> mo, first |-> first]
MonthEnds == {2, 3, NoMonthEnd}

\* The month that day `day` lies in.
MonthOn(cal, day) == IF day >= cal.first THEN (cal.month % 12) + 1 ELSE cal.month

\* datetime.now(TIMEZONE).date() when a job fires: schedule fires the jobs at
\* 00:00 and 12:00 of the wall clock on local day `day`, and the date is taken
\* in TIMEZONE.
DateInTimezone(day, is_midnight, offset) ==
    LET t == (IF is_midnight THEN 0 ELSE 720) - (offset - TzOffset)
    IN IF t < 0 THEN day - 1 ELSE day

\* datetime.time(h, m) accepts the string's numbers.
ValidTime(str) == str.h \in 0..23 /\ str.m \in 0..59

\* parse_window_time(time_str) of make_forecast.
ParseWindowTime(str) ==
    IF ValidTime(str) THEN Value(60 * str.h + str.m) ELSE Raised("ValueError")

(***************************************************************************)
(* The history file JSON_FILE.                                             *)
(***************************************************************************)
ListFile(entries) == [kind |-> "list", entries |-> entries]
DamagedFile(kind) == [kind |-> kind, entries |-> <<>>]
FileDamages == {"missing", "corrupt", "not_list", "unreadable"}

\* The list make_forecast appends to after reading the file (lines 148-159), or
\* the exception the inner try does not catch.
ReadHistory(f) ==
    IF f.kind = "list" THEN Value(f.entries)
    ELSE IF f.kind \in {"missing", "corrupt", "not_list"} THEN Value(<<>>)
    ELSE Raised("OSError")

\* How open(JSON_FILE, 'w') and json.dump end.
WriteOutcomes == {"written", "open_fails", "dump_fails"}

\* The file after the try block of lines 146-171.
PersistedFile(f, prognoza, outcome) ==
    IF f.kind = "unreadable" THEN f
    ELSE IF outcome = "open_fails" THEN f
    ELSE IF outcome = "dump_fails" THEN DamagedFile("corrupt")
    ELSE ListFile(Append(ReadHistory(f).value, prognoza))

NoLocals == [no_locals |-> TRUE]
NotReturned == [not_returned |-> TRUE]
NoResponse == [no_response |-> TRUE]
NoCall == [no_call |-> TRUE]

ForecastInit ==
    /\ history_file = ListFile(<<>>)
    /\ sched_pc = "sleeping"
    /\ mf_pc = "none"
    /\ mf = NoLocals
    /\ fetch_ret = NotReturned
    /\ last_resp = NoResponse
    /\ fetch_depth = 0
    /\ now_month = 1
    /\ today = 1
    /\ half = "am"
    /\ ticks = 0
    /\ ce_in = NoCall
    /\ ce_out = NoCall
    /\ write_result = "none"
    /\ local_offset = WinterOffset
    /\ calendar = Calendar(1, NoMonthEnd)

\* The environment of the forecaster before its first tick: the day's sun times
\* (or no usable configuration), the month, and whether the process was started
\* before or after 12:00.
ForecastDay(s, mo, h) ==
    /\ ticks = 0
    /\ sun = SunFailure
    /\ now_month = 1
    /\ half = "am"
    /\ sun' = s
    /\ now_month' = mo
    /\ half' = h
    /\ \E first \in MonthEnds : calendar' = Calendar(mo, first)
    /\ \E offset \in {WinterOffset, SummerOffset} :
          /\ OffsetAllowed(mo, offset)
          /\ local_offset' = offset
    /\ UNCHANGED <<mqtt_vars, config_vars, api_vars, calc_vars, config, windows, cls_now, cls_out, history_file, sched_pc, mf_pc, mf,
                   fetch_depth, fetch_ret, last_resp, today, ticks, ce_in, ce_out,
                   write_result>>

\* The machine's zone (Europe/Warsaw) changes between winter and summer time, in
\* the night, after the 00:00 job and before the 12:00 job, in March and in
\* October.
DstChange ==
    /\ sched_pc = "sleeping"
    /\ half = "am"
    /\ \/ MonthOn(calendar, today) = 3 /\ local_offset = WinterOffset
       \/ MonthOn(calendar, today) = 10 /\ local_offset = SummerOffset
    /\ local_offset' = (IF local_offset = WinterOffset THEN SummerOffset ELSE WinterOffset)
    /\ UNCHANGED <<mqtt_vars, config_vars, api_vars, windows_vars, calc_vars, history_file, sched_pc, mf_pc, mf, fetch_depth,
                   fetch_ret, last_resp, now_month, today, half, ticks, ce_in, ce_out,
                   write_result, calendar>>

\* Something outside the program removes or damages JSON_FILE between two ticks.
HistoryFileBecomes(kind) ==
    /\ sched_pc = "sleeping"
    /\ history_file # DamagedFile(kind)
    /\ history_file' = DamagedFile(kind)
    /\ UNCHANGED <<mqtt_vars, config_vars, api_vars, windows_vars, calc_vars, sched_pc, mf_pc, mf, fetch_depth, fetch_ret,
                   last_resp, now_month, today, half, ticks, ce_in, ce_out,
                   write_result, local_offset, calendar>>

\* schedule.run_pending() finds a job due and calls make_forecast(is_midnight),
\* which runs to the call of fetch_forecast (lines 106-118).  An exception of
\* parse_window_time leaves make_forecast, the job and run_scheduler.
RunPending(is_midnight) ==
    /\ sched_pc = "sleeping"
    /\ ticks < MaxTicks
    /\ half = (IF is_midnight THEN "pm" ELSE "am")
    /\ ticks' = ticks + 1
    /\ today' = (IF is_midnight THEN today + 1 ELSE today)
    /\ half' = (IF is_midnight THEN "am" ELSE "pm")
    /\ fetch_ret' = NotReturned
    /\ last_resp' = NoResponse
    /\ fetch_depth' = 0
    /\ write_result' = "none"
    /\ now_month' = MonthOn(calendar, DateInTimezone(today', is_midnight, local_offset))
    /\ LET w == CalculateDailyWindows(SunSeen(config, sun))
           start == ParseWindowTime(w.poczatek_okna_ladowania)
           end == ParseWindowTime(w.koniec_okna_ladowania)
       IN IF IsRaised(start) \/ IsRaised(end)
          THEN /\ sched_pc' = "crashed"
               /\ mf_pc' = "none"
               /\ mf' = NoLocals
          ELSE /\ sched_pc' = "job"
               /\ mf_pc' = "fetch"
               /\ mf' = [is_midnight |-> is_midnight,
                         date |-> DateInTimezone(today', is_midnight, local_offset),
                         windows |-> w,
                         start |-> start.value, end |-> end.value]
    /\ UNCHANGED <<mqtt_vars, config_vars, api_vars, windows_vars, calc_vars, history_file, ce_in, ce_out,
                   local_offset, calendar>>

\* sys.getrecursionlimit() less the frames one request needs: the nested call at
\* this depth ends in RecursionError, which its `except Exception` catches.
RecursionLimit == 3

\* One pass through fetch_forecast at nesting depth d.
FetchOutcomeAt(d, resp) == IF d >= RecursionLimit THEN None ELSE FetchOutcome(resp)

\* requests.get(API_URL) returns or raises, and fetch_forecast runs to its return
\* or to time.sleep.
FetchRequest(resp) ==
    /\ mf_pc = "fetch"
    /\ last_resp' = resp
    /\ IF FetchOutcomeAt(fetch_depth, resp) = RetryFetch
       THEN /\ mf_pc' = "fetch_sleep"
            /\ UNCHANGED fetch_ret
       ELSE /\ mf_pc' = "energy"
            /\ fetch_ret' = FetchOutcomeAt(fetch_depth, resp)
    /\ UNCHANGED <<mqtt_vars, config_vars, api_vars, windows_vars, calc_vars, history_file, sched_pc, mf, fetch_depth,
                   now_month, today, half, ticks, ce_in, ce_out,
                   write_result, local_offset, calendar>>

\* requests.get(API_URL) is called without a timeout: a peer that accepts the
\* connection and never answers keeps the call, and the thread, waiting.
FetchRequestHangs ==
    /\ mf_pc = "fetch"
    /\ fetch_depth < RecursionLimit
    /\ mf_pc' = "blocked_in_get"
    /\ UNCHANGED <<mqtt_vars, config_vars, api_vars, windows_vars, calc_vars, history_file, sched_pc, mf, fetch_depth,
                   fetch_ret, last_resp, now_month, today, half, ticks, ce_in, ce_out,
                   write_result, local_offset, calendar>>

\* time.sleep(wait_seconds) ends and fetch_forecast calls itself (line 70).
FetchSleepRetry ==
    /\ mf_pc = "fetch_sleep"
    /\ mf_pc' = "fetch"
    /\ fetch_depth' = fetch_depth + 1
    /\ UNCHANGED <<mqtt_vars, config_vars, api_vars, windows_vars, calc_vars, history_file, sched_pc, mf, fetch_ret,
                   last_resp, now_month, today, half, ticks, ce_in, ce_out,
                   write_result, local_offset, calendar>>

\* make_forecast with the 12:00 job integrating like the 00:00 job: from_time
\* is never passed, only the labels differ.
PrognozaWholeWindow(locals, forecast_data, mo) ==
    LET energia == CalculateEnergy(forecast_data, locals.start, locals.end, NoFromTime, mo)
    IN IF IsRaised(energia) THEN energia
       ELSE Value([ data |-> locals.date,
                    start |-> IF locals.is_midnight
                              THEN locals.windows.poczatek_okna_ladowania ELSE HM(12, 0),
                    end |-> locals.windows.koniec_okna_ladowania,
                    energia_kwh |-> Round2(energia.value),
                    typ |-> IF locals.is_midnight THEN "calodzienna" ELSE "popoludniowa" ])

\* The prognoza make_forecast builds (lines 125-143), or the exception of
\* calculate_energy.
Prognoza(locals, forecast_data, mo) ==
    LET from_time == IF locals.is_midnight THEN NoFromTime ELSE 720
        energia == CalculateEnergy(forecast_data, locals.start, locals.end, from_time, mo)
    IN IF IsRaised(energia) THEN energia
       ELSE Value([ data |-> locals.date,
                    start |-> IF locals.is_midnight
                              THEN locals.windows.poczatek_okna_ladowania ELSE HM(12, 0),
                    end |-> locals.windows.koniec_okna_ladowania,
                    energia_kwh |-> Round2(energia.value),
                    typ |-> IF locals.is_midnight THEN "calodzienna" ELSE "popoludniowa" ])

\* make_forecast from the return of fetch_forecast to line 144: the early return
\* of line 123, or calculate_energy, whose exception nothing catches.
Integrate ==
    /\ mf_pc = "energy"
    /\ IF NotForecastData(fetch_ret)
       THEN /\ mf_pc' = "none"
            /\ sched_pc' = "sleeping"
            /\ mf' = NoLocals
       ELSE LET p == Prognoza(mf, fetch_ret, now_month)
            IN IF IsRaised(p)
               THEN /\ mf_pc' = "none"
                    /\ sched_pc' = "crashed"
                    /\ mf' = NoLocals
               ELSE /\ mf_pc' = "persist"
                    /\ sched_pc' = sched_pc
                    /\ mf' = [mf EXCEPT !.windows = NoWindows] @@ [prognoza |-> p.value]
    /\ UNCHANGED <<mqtt_vars, config_vars, api_vars, windows_vars, calc_vars, history_file, fetch_depth, fetch_ret, last_resp,
                   now_month, today, half, ticks, ce_in, ce_out,
                   write_result, local_offset, calendar>>

\* Lines 146-171: read JSON_FILE, append, write back; every exception is logged.
Persist(outcome) ==
    /\ mf_pc = "persist"
    /\ outcome = "written" \/ history_file.kind # "unreadable"
    /\ history_file' = PersistedFile(history_file, mf.prognoza, outcome)
    /\ write_result' = (IF history_file.kind = "unreadable" THEN "not_attempted"
                       ELSE outcome)
    /\ mf_pc' = "none"
    /\ sched_pc' = "sleeping"
    /\ mf' = NoLocals
    /\ UNCHANGED <<mqtt_vars, config_vars, api_vars, windows_vars, calc_vars, fetch_depth, fetch_ret, last_resp, now_month,
                   today, half, ticks, ce_in, ce_out,
                   local_offset, calendar>>

FetchStep ==
    \/ \E resp \in Responses : FetchRequest(resp)
    \/ FetchSleepRetry

ForecastNext ==
    \/ \E s \in ForecastSuns, mo \in ForecastMonths, h \in {"am", "pm"} : ForecastDay(s, mo, h)
    \/ DstChange
    \/ \E kind \in FileDamages : HistoryFileBecomes(kind)
    \/ \E is_midnight \in BOOLEAN : RunPending(is_midnight)
    \/ FetchStep
    \/ FetchRequestHangs
    \/ Integrate
    \/ \E outcome \in WriteOutcomes : Persist(outcome)

\* calculate_energy called on its own, in the month mo (one call is observed).
CalculateEnergyCall(forecast_data, start, end, from_time, mo) ==
    /\ ce_in' = [forecast_data |-> forecast_data, start |-> start, end |-> end,
                 from_time |-> from_time, month |-> mo]
    /\ ce_out' = CalculateEnergy(forecast_data, start, end, from_time, mo)
    /\ UNCHANGED <<mqtt_vars, config_vars, api_vars, windows_vars, calc_vars, history_file, sched_pc, mf_pc, mf, fetch_depth,
                   fetch_ret, last_resp, now_month, today, half, ticks,
                   write_result, local_offset, calendar>>

EnergyNext ==
    /\ ce_in = NoCall
    /\ \E q \in EnergySeries, start \in WindowEdges, end \in WindowEdges,
          from_time \in {NoFromTime, 600, 720}, mo \in 1..12 :
           CalculateEnergyCall(Mapping(q), start, end, from_time, mo)

(***************************************************************************)
(* config_loader.py: the four configuration files and their cache.         *)
(***************************************************************************)
\* The keys of _config_cache that hold a configuration; key k is loaded from
\* config/k.json.
ConfigKeys == {"energy_profiles", "cwu_schedule", "system_config", "user_corrections"}

MaxConfigCalls == 2

\* What a configuration file can be on disk.
NoFile == [file |-> "missing"]          \* os.path.exists(filepath) is False
NotJson == [file |-> "not json"]        \* text json.load rejects (an empty file too)
Json(v) == [file |-> "json", value |-> v]

\* JSON values.  A dict is told by its revision and by which of the keys the
\* validator requires it holds: "none" is {}, "some" lacks a few, "all" lacks
\* none, "defaulted" is "some" after the validator has filled the defaults in.
Dict(rev, keys) == [dict |-> rev, keys |-> keys]
NonEmptyList == [list |-> 1]            \* [1]: valid JSON, not an object

FileContents ==
    {NoFile, NotJson, Json(Dict(0, "none")), Json(NonEmptyList),
     Json(Dict(1, "all")), Json(Dict(2, "some"))}

\* The contents each file is seen with: the two files the windows and the
\* endpoints read take every content, the other two are present or removed.
FileContentsOf(key) ==
    IF key \in {"energy_profiles", "system_config"} THEN FileContents
    ELSE {Json(Dict(1, "all")), NoFile}

\* _load_json_file: the parsed value, or None for a file that is missing or
\* that json.load (or open) fails on.
LoadJsonFile(content) ==
    IF content = NoFile THEN None
    ELSE IF content = NotJson THEN None
    ELSE content.value

IsDict(data) == "dict" \in DOMAIN data

\* Python truth of a loaded value: None and {} are false.
Truthy(data) ==
    IF data = None THEN FALSE
    ELSE IF IsDict(data) THEN data.keys # "none"
    ELSE TRUE

\* _validate_energy_profiles, _validate_cwu_schedule, _validate_system_config,
\* _validate_user_corrections on a true value: a dict gets the missing keys
\* set to their defaults; on a list or a str "data[key] = {}" raises TypeError.
ValidateConfig(data) ==
    IF ~IsDict(data) THEN Raised("TypeError")
    ELSE IF data.keys = "some" THEN Value([data EXCEPT !.keys = "defaulted"])
    ELSE Value(data)

\* reload_all_configs on the cache and the files, at time t: the cache it leaves
\* and how it ends.  The four loads and the four validations come before the
\* first assignment to the cache, and nothing catches what a validator raises.
ReloadAllConfigs(cache, files, t) ==
    LET data == [k \in ConfigKeys |-> LoadJsonFile(files[k])]
        raises == \E k \in ConfigKeys :
                     Truthy(data[k]) /\ ValidateConfig(data[k]) = Raised("TypeError")
        loaded_files == {k \in ConfigKeys : Truthy(data[k])}
    IN  IF raises
        THEN [cache |-> cache, ret |-> Raised("TypeError")]
        ELSE [cache |->
                 [k \in DOMAIN cache |->
                     IF k = "last_load_time"
                     THEN IF loaded_files # {} THEN Iso(t) ELSE cache[k]
                     ELSE IF k \in loaded_files THEN ValidateConfig(data[k]).value
                     ELSE cache[k]],
              ret |-> Value(loaded_files = ConfigKeys)]

\* The module as imported: nothing cached.  The files as deployed: all complete.
ConfigInit ==
    /\ cfg_files = [k \in ConfigKeys |-> Json(Dict(1, "all"))]
    /\ config_cache = [k \in ConfigKeys \cup {"last_load_time"} |-> None]
    /\ reload_ret = NoCall
    /\ getter_ret = NoCall
    /\ nreloads = 0
    /\ cfg_calls = 0

\* Somebody edits, damages or removes config/key.json.
FileBecomes(key, content) ==
    /\ content # cfg_files[key]
    /\ cfg_files' = [cfg_files EXCEPT ![key] = content]
    /\ UNCHANGED <<config_cache, reload_ret, getter_ret, nreloads, cfg_calls>>
    /\ UNCHANGED <<mqtt_vars, windows_vars, calc_vars, forecast_vars, api_vars>>

\* What one run of reload_all_configs does to the loader's state.
Reloaded ==
    LET r == ReloadAllConfigs(config_cache, cfg_files, nreloads + 1)
    IN  /\ config_cache' = r.cache
        /\ reload_ret' = r.ret
        /\ nreloads' = nreloads + 1

\* reload_all_configs called from outside.
Reload ==
    /\ cfg_calls < MaxConfigCalls
    /\ cfg_calls' = cfg_calls + 1
    /\ Reloaded
    /\ UNCHANGED <<cfg_files, getter_ret>>
    /\ UNCHANGED <<mqtt_vars, windows_vars, calc_vars, forecast_vars, api_vars>>

\* A getter of the entry key: reload when the entry is false, then return the
\* entry (what reload_all_configs raises passes through the getter).
GetterReturns(key) ==
    /\ IF ~Truthy(config_cache[key])
       THEN Reloaded
       ELSE UNCHANGED <<config_cache, reload_ret, nreloads>>
    /\ getter_ret' =
          [getter |-> key,
           ret |-> IF reload_ret' = Raised("TypeError") /\ nreloads' # nreloads
                   THEN Raised("TypeError")
                   ELSE Value(config_cache'[key])]

\* The rest of a getter called from outside.
GetterCalled ==
    /\ cfg_calls < MaxConfigCalls
    /\ cfg_calls' = cfg_calls + 1
    /\ UNCHANGED cfg_files
    /\ UNCHANGED <<mqtt_vars, windows_vars, calc_vars, forecast_vars, api_vars>>

\* get_energy_profiles() (day_type = None)
GetEnergyProfiles ==
    /\ GetterReturns("energy_profiles")
    /\ GetterCalled

GetCwuSchedule ==
    /\ GetterReturns("cwu_schedule")
    /\ GetterCalled

GetSystemConfig ==
    /\ GetterReturns("system_config")
    /\ GetterCalled

GetUserCorrections ==
    /\ GetterReturns("user_corrections")
    /\ GetterCalled

ConfigNext ==
    \/ \E key \in ConfigKeys : \E content \in FileContentsOf(key) :
          FileBecomes(key, content)
    \/ Reload
    \/ GetEnergyProfiles
    \/ GetCwuSchedule
    \/ GetSystemConfig
    \/ GetUserCorrections

(***************************************************************************)
(* api.py: the endpoints that report the MQTT connection.                  *)
(***************************************************************************)
MaxRequests == 2

\* "from mqtt_sa import mqtt_client, ..." succeeded: the aggregator exists.
MQTT_AVAILABLE == TRUE

\* The attributes __init__ gives the SolarAssistantMQTT instance mqtt_client.
MqttClient ==
    [broker_ip |-> Str("192.168.8.143"), port |-> Value(1883), prefix |-> Str(Prefix),
     client |-> Str(client), current_data |-> current_data,
     data_cache |-> data_cache, lock |-> Str(lock)]

\* getattr(obj, name, default)
GetAttr(obj, name, default) == IF name \in DOMAIN obj THEN obj[name] ELSE default

ApiInit ==
    /\ api_resp = NoCall
    /\ nrequests = 0

\* GET /api/mqtt/status: get_system_config() (a reload when the entry is
\* empty), then "connected" is getattr(mqtt_client, 'connected', False).
GetMqttStatus ==
    /\ nrequests < MaxRequests
    /\ nrequests' = nrequests + 1
    /\ GetterReturns("system_config")
    /\ api_resp' =
          IF getter_ret'.ret = Raised("TypeError")
          THEN [endpoint |-> "/api/mqtt/status", raised |-> "TypeError"]
          ELSE [endpoint |-> "/api/mqtt/status",
                available |-> MQTT_AVAILABLE,
                connected |-> IF MQTT_AVAILABLE
                              THEN GetAttr(MqttClient, "connected", FALSE)
                              ELSE FALSE]
    /\ UNCHANGED <<cfg_files, cfg_calls>>
    /\ UNCHANGED <<mqtt_vars, windows_vars, calc_vars, forecast_vars>>

\* GET /api/mqtt-data: get_mqtt_data() takes the snapshot under the lock and
\* reports data.get('connected', False) as mqtt_connected.
GetMqttData ==
    /\ nrequests < MaxRequests
    /\ nrequests' = nrequests + 1
    /\ lock = "free"
    /\ api_resp' =
          [endpoint |-> "/api/mqtt-data",
           connected |-> IF MQTT_AVAILABLE THEN current_data.connected ELSE FALSE,
           last_update |-> current_data.last_update]
    /\ UNCHANGED <<mqtt_vars, windows_vars, calc_vars, forecast_vars, config_vars>>

ApiNext ==
    \/ ConnectFails
    \/ ConnectSucceeds
    \/ Reconnect
    \/ OnConnectAccepted
    \/ OnConnectStamp
    \/ OnConnectRefused
    \/ OnDisconnectFlag
    \/ OnDisconnectStamp
    \/ Disconnect
    \/ \E content \in FileContents : FileBecomes("system_config", content)
    \/ GetMqttStatus
    \/ GetMqttData

Init == MqttInit /\ WindowsInit /\ ForecastInit /\ ConfigInit /\ ApiInit

\* The aggregator with its network thread, its session and a consumer thread.
MqttSpec == Init /\ [][MqttNext]_vars

\* The same, each thread that holds the lock being scheduled until it has left
\* its with block.
MqttFairSpec ==
    /\ MqttSpec
    /\ WF_vars(OnMessageParse)
    /\ WF_vars(OnMessageStamp)
    /\ WF_vars(OnMessageRelease)
    /\ WF_vars(GetCurrentDataCopy)

\* The message handler alone, over every topic and payload.
IngestSpec == Init /\ [][IngestNext]_vars

\* connect, disconnect, the callbacks of the session and the commands.
CommandSpec == Init /\ [][CommandNext]_vars

\* The window calculator and the classifier over the days of SunChoices.
WindowsSpec == Init /\ [][WindowsNext]_vars

\* calculate_daily_windows called again and again while the clock and the
\* configuration change.
CalculatorSpec == Init /\ [][CalculatorNext]_vars

\* The classifier's decision as a function of the time and the window strings.
DecisionSpec == Init /\ [][DecisionNext]_vars

\* The forecaster: the scheduler thread, the server and the history file.
ForecastSpec == Init /\ [][ForecastNext]_vars

\* The same, the thread inside fetch_forecast being scheduled whenever it can run.
ForecastFairSpec == ForecastSpec /\ WF_vars(FetchStep)

\* calculate_energy as a function of its arguments.
EnergySpec == Init /\ [][EnergyNext]_vars

\* The configuration loader while the files change under it.
ConfigSpec == Init /\ [][ConfigNext]_vars

\* The endpoints served while the session comes and goes.
ApiSpec == Init /\ [][ApiNext]_vars

(***************************************************************************)
(* Claims about the telemetry aggregator.                                  *)
(***************************************************************************)

\* C1: every snapshot get_current_data returned shows, whenever the consumer reads
\* it, the message-written state (readings, timestamp, last_update) after some
\* complete prefix of the messages.  Stated as the claim states it; the nested
\* dicts of the returned copy are the live ones, so it fails.
C1_SnapshotIsMessagePrefix ==
    held # NoSnapshot => MessagePart(Deref(held)) \in prefixes

\* C2: no step changes what a consumer reads through a snapshot it already holds.
C2_HeldSnapshotNeverChanges ==
    [][(held # NoSnapshot /\ held' = held) => Deref(held)' = Deref(held)]_vars

\* C3: every step that writes the snapshot (the top-level dict or a nested dict)
\* is taken while the network thread, the only writer, holds the lock.
C3_WritesUnderLock ==
    [][(current_data' # current_data \/ heap' # heap) => lock = "net"]_vars

\* The field the claim names for each numeric-field topic.
C4Field ==
    [ t \in { "SZE/inverter_1/grid_power/state", "SZE/inverter_1/pv_power/state",
              "SZE/inverter_1/load_power/state",
              "SZE/inverter_1/max_grid_charge_current/state",
              "SZE/total/battery_state_of_charge/state", "SZE/total/battery_power/state",
              "SZE/total/grid_power/state", "SZE/battery_1/state_of_charge/state",
              "SZE/battery_1/voltage/state", "SZE/battery_1/current/state" } |->
        CASE t = "SZE/inverter_1/grid_power/state" -> <<"grid", "power_w">>
          [] t = "SZE/inverter_1/pv_power/state" -> <<"pv", "power_w">>
          [] t = "SZE/inverter_1/load_power/state" -> <<"load", "power_w">>
          [] t = "SZE/inverter_1/max_grid_charge_current/state" ->
                <<"inverter", "max_grid_charge_a">>
          [] t = "SZE/total/battery_state_of_charge/state" -> <<"battery", "soc_percent">>
          [] t = "SZE/total/battery_power/state" -> <<"battery", "power_w">>
          [] t = "SZE/total/grid_power/state" -> <<"grid", "power_w">>
          [] t = "SZE/battery_1/state_of_charge/state" -> <<"battery", "soc_percent">>
          [] t = "SZE/battery_1/voltage/state" -> <<"battery", "voltage_v">>
          [] t = "SZE/battery_1/current/state" -> <<"battery", "current_a">> ]

\* A decimal numeral: an optional "-", then ASCII digits with at most one ".".
C4Unsigned(s) == IF Len(s) > 0 /\ s[1] = "-" THEN Tail(s) ELSE s
C4IsNumeral(s) ==
    /\ Decodes(s)
    /\ Len(ReplaceFirstDot(C4Unsigned(s))) > 0
    /\ \A i \in 1..Len(ReplaceFirstDot(C4Unsigned(s))) :
          ReplaceFirstDot(C4Unsigned(s))[i] \in AsciiDigits
C4Value(s) ==
    IF Len(s) > 0 /\ s[1] = "-"
    THEN [num |-> 0 - Float(Tail(s)).num, exp |-> Float(Tail(s)).exp]
    ELSE Float(s)

\* C4: once _on_message has returned for a message on a numeric-field topic, the
\* field holds the payload's number when the payload is a decimal numeral (a
\* negative one included) and 0 otherwise, and the handler raised nothing.
C4_NumericPayloadStored ==
    (net_pc = "idle" /\ last_msg # NoMsg /\ last_msg.topic.name \in DOMAIN C4Field) =>
        /\ msg_exc = "none"
        /\ heap[C4Field[last_msg.topic.name][1]][C4Field[last_msg.topic.name][2]] =
              IF C4IsNumeral(last_msg.payload) THEN C4Value(last_msg.payload) ELSE Zero

C9_SunriseAndLoadingOrdered ==
    windows # NoWindows =>
        /\ ParseTime(windows.wschod_slonca) < ParseTime(windows.zachod_slonca)
        /\ ParseTime(windows.poczatek_okna_ladowania)
             < ParseTime(windows.koniec_okna_ladowania)

(***************************************************************************)
(* Claims about the forecast integrator.                                   *)
(***************************************************************************)
\* C5: a call of fetch_forecast always ends: whatever the server does, a tick
\* that has entered fetch_forecast eventually has its return value.
C5_FetchTerminates == (mf_pc = "fetch") ~> (mf_pc = "energy")

\* C6: no tick ends run_scheduler: whatever the response holds and whatever
\* the state of the history file, no exception leaves make_forecast.
C6_SchedulerSurvivesTick == sched_pc # "crashed"

\* The series of C7: the keys 10:00 and 11:00 as written in the mapping, and
\* the keys whose instants are 10:00 and 11:00 in TIMEZONE.
C7Series ==
    { Mapping(<< Sample(Key("iso", 600), 1000), Sample(Key("iso", 660), 2000) >>),
      Mapping(<< Sample(Key("iso", 540), 1000), Sample(Key("iso", 600), 2000) >>) }

\* C7: 1000 W at 10:00 and 2000 W at 11:00 over the window [10:00, 11:00) with
\* factor 1.0 give 1.5 kWh, the mean of the two readings times the hour.
C7_TrapezoidalExample ==
    ( /\ ce_in # NoCall
      /\ ce_in.forecast_data \in C7Series
      /\ ce_in.start = 600 /\ ce_in.end = 660 /\ ce_in.from_time = NoFromTime
      /\ MonthFactor(ce_in.month) = 10 )
        => ce_out = Value(15000)

\* A fetch that fails: a request exception, a non-success status, or the nested
\* retries used up.
C10FetchFails(depth, resp) ==
    resp.kind \in {"exception", "status"} \/ depth >= RecursionLimit

\* C10: a fetch that fails returns None without raising, and the tick it
\* belongs to returns without touching the history file: every step of
\* make_forecast up to the return leaves the file as it is.
C10_FailedFetchKeepsHistory ==
    [][ /\ (mf_pc = "fetch" /\ mf_pc' \in {"energy", "fetch_sleep"}
                           /\ C10FetchFails(fetch_depth, last_resp'))
            => (mf_pc' = "energy" /\ fetch_ret' = None /\ sched_pc' = "job"
                                 /\ history_file' = history_file)
        /\ (mf_pc = "energy" /\ fetch_ret = None)
            => (mf_pc' = "none" /\ sched_pc' = "sleeping"
                               /\ history_file' = history_file) ]_vars

\* A tick whose fetch got status 500 has returned, and the entry an earlier tick
\* wrote is still the whole history.
C10_Witness ==
    /\ mf_pc = "none" /\ sched_pc = "sleeping"
    /\ ticks = 2
    /\ last_resp = StatusResponse(500)
    /\ fetch_ret = None
    /\ history_file.kind = "list" /\ Len(history_file.entries) = 1

\* The step in which make_forecast runs its file block and returns.
FileBlockStep == mf_pc = "persist" /\ mf_pc' = "none"

\* C11: a history file that is missing, cannot be read, or does not hold a list
\* is taken as empty: unless the write itself fails, the file block leaves a
\* list holding exactly the new entry.
C11_DamagedStoreIsReplaced ==
    [][ (FileBlockStep /\ history_file.kind # "list"
                       /\ write_result' \notin {"open_fails", "dump_fails"})
            => history_file' = ListFile(<< mf.prognoza >>) ]_vars

\* C12: the history is append-only: when the file holds a list H, the file block
\* leaves H or H followed by the new entry, also when its write fails.
C12_HistoryAppendOnly ==
    [][ (FileBlockStep /\ history_file.kind = "list")
            => \/ history_file' = history_file
               \/ history_file' = ListFile(Append(history_file.entries, mf.prognoza)) ]_vars

\* C13: a tick adds at most one entry, and no two entries of the history carry
\* the same date and the same type.
C13_OneEntryPerDateAndType ==
    history_file.kind = "list" =>
        \A i, j \in 1..Len(history_file.entries) :
            ( /\ history_file.entries[i].data = history_file.entries[j].data
              /\ history_file.entries[i].typ = history_file.entries[j].typ ) => i = j

\* The entries of a mapping whose time, in TIMEZONE, lies in [lo, hi).
C14Inside(series, lo, hi) ==
    { i \in 1..Len(series) : series[i].key.fmt # "bad"
                              /\ lo <= series[i].key.t + TzOffset
                              /\ series[i].key.t + TzOffset < hi }

\* The sum of the powers of the entries idxs of a mapping.
RECURSIVE C14Sum(_, _)
C14Sum(series, idxs) ==
    IF idxs = {} THEN 0
    ELSE LET i == CHOOSE k \in idxs : TRUE
         IN series[i].power + C14Sum(series, idxs \ {i})

\* The interval a tick integrates over: the loading window, from 12:00 on for
\* the noon tick.
C14From(locals) ==
    IF locals.is_midnight \/ locals.start >= 720 THEN locals.start ELSE 720

C15Within(now, a, b) == a <= now /\ now < b

\* now lies in the night window, which runs over midnight when it ends before
\* it starts.
C15InNight(now, night_start, night_end) ==
    IF night_end < night_start THEN now >= night_start \/ now < night_end
    ELSE C15Within(now, night_start, night_end)

\* C15: each window is start-inclusive and end-exclusive, the night window may
\* run over midnight, and evening is decided before night before loading: the
\* answer is the first of the three windows that holds the time, None if none.
C15_ClassifierOrder ==
    cls_now # -1 =>
        LET evening == C15Within(cls_now, ParseTime(windows.poczatek_okna_wieczornego),
                                 ParseTime(windows.koniec_okna_wieczornego))
            night == C15InNight(cls_now, ParseTime(windows.poczatek_okna_nocnego),
                                ParseTime(windows.koniec_okna_nocnego))
            loading == C15Within(cls_now, ParseTime(windows.poczatek_okna_ladowania),
                                 ParseTime(windows.koniec_okna_ladowania))
        IN /\ cls_out = "evening_window" <=> evening
           /\ cls_out = "night_window" <=> (~evening /\ night)
           /\ cls_out = "loading_window" <=> (~evening /\ ~night /\ loading)
           /\ cls_out = "None" <=> (~evening /\ ~night /\ ~loading)

\* A time at the start of a night window that runs over midnight, inside the
\* loading window too, has been given to the night window.
C15_Witness ==
    /\ cls_now # -1
    /\ cls_out = "night_window"
    /\ ParseTime(windows.koniec_okna_nocnego) < ParseTime(windows.poczatek_okna_nocnego)
    /\ cls_now = ParseTime(windows.poczatek_okna_nocnego)
    /\ C15Within(cls_now, ParseTime(windows.poczatek_okna_ladowania),
                 ParseTime(windows.koniec_okna_ladowania))

\* C16, as stated: on every failure, a configuration without coordinates among
\* them, calculate_daily_windows returns the fixed fallback windows.
C16_FallbackAlsoWithoutCoordinates ==
    ( /\ windows # NoWindows
      /\ (config \in FailingConfigs \cup {"no_coordinates"} \/ sun = SunFailure) )
        => windows = FallbackWindows

\* C16, amended: calculate_daily_windows always returns windows; it returns the
\* fixed fallback when the config loader or the configuration is unavailable,
\* the coordinates are malformed or astral raises, and when the coordinates are
\* absent it returns the windows computed for the default location.
C16_FallbackOnFailure ==
    windows # NoWindows =>
        /\ (config \in FailingConfigs \/ sun = SunFailure) => windows = FallbackWindows
        /\ (config = "no_coordinates" /\ sun # SunFailure)
             => /\ windows.wschod_slonca = Strftime(sun.sunrise)
                /\ windows.zachod_slonca = Strftime(sun.sunset)

\* The coordinates are malformed on a day astral could compute, and the call
\* has returned the fallback windows.
C16_Witness ==
    /\ config = "malformed" /\ sun = Sun(453, 932)
    /\ windows = FallbackWindows

C18_BoundariesAtNinetyMinutes ==
    (windows # NoWindows /\ SunSeen(config, sun) # SunFailure) =>
        /\ ParseTime(windows.poczatek_okna_ladowania) = sun.sunrise + 90
        /\ ParseTime(windows.koniec_okna_ladowania) = sun.sunset - 90
        /\ ParseTime(windows.poczatek_okna_wieczornego) = sun.sunset - 90
        /\ ParseTime(windows.koniec_okna_nocnego) = sun.sunrise + 90

\* C19: every message handed to the handler leaves the snapshot's timestamp
\* and last_update at that message's ingestion time, so that after any
\* sequence of messages the snapshot carries the time of the last one.
C19_EveryMessageStamps ==
    [][ nmsgs' = nmsgs + 1
        => /\ current_data'.timestamp = Iso(clock')
           /\ current_data'.last_update = Hms(clock') ]_vars

\* C20: while connect() has returned True and no disconnect has happened since,
\* every step of a read of the snapshot (taking the lock, copying) finds the
\* snapshot connected = true, so the read reports connected = true.
C20_ReadAfterConnectIsConnected ==
    [][ ( /\ rd_pc' # rd_pc
          /\ connect_ret = "True"
          /\ current_data.last_disconnect = Absent
          /\ net_pc # "disc_stamp" )
        => current_data.connected = TRUE ]_vars

(***************************************************************************)
(* Claims about sessions and commands.                                     *)
(***************************************************************************)
DisconnectStep == ndisconnects' = ndisconnects + 1

\* C21 (as stated): after every disconnect() the snapshot reports
\* connected = false together with a disconnect timestamp.
C21_DisconnectAlwaysStamps ==
    [][ DisconnectStep
        => /\ current_data'.connected = FALSE
           /\ current_data'.last_disconnect # Absent ]_vars

\* C21: a disconnect() that finds a session open leaves connected = false
\* and the time of the disconnect in last_disconnect; after any disconnect()
\* the flag is false, and it becomes true again only when the broker accepts
\* a new session.
C21_DisconnectMarksOpenSession ==
    [][ /\ DisconnectStep => current_data'.connected = FALSE
        /\ (DisconnectStep /\ HasSocket)
              => current_data'.last_disconnect = Iso(clock')
        /\ (current_data.connected = FALSE /\ current_data'.connected = TRUE)
              => (link = "connack" /\ link' = "up" /\ nsessions' = nsessions + 1) ]_vars

C21_Witness ==
    /\ ndisconnects = 1
    /\ client = "stopped"
    /\ nsessions = 1
    /\ clock = 2
    /\ current_data.last_connect = Iso(1)
    /\ current_data.connected = FALSE
    /\ current_data.last_disconnect = Iso(2)

\* A step of a disconnect: the disconnect operation, or one of the two writes
\* of the disconnect callback.
C22DisconnectWrites ==
    \/ DisconnectStep
    \/ net_pc # "disc_stamp" /\ net_pc' = "disc_stamp"
    \/ net_pc = "disc_stamp" /\ net_pc' # "disc_stamp"

\* C22: a disconnect changes nothing but the connectivity flag and the
\* disconnect timestamp: the nested readings, the message timestamp,
\* last_update, last_connect and the topic cache keep their values.
C22_DisconnectKeepsReadings ==
    [][ C22DisconnectWrites
        => /\ heap' = heap
           /\ data_cache' = data_cache
           /\ \A k \in DOMAIN current_data \ {"connected", "last_disconnect"} :
                 current_data'[k] = current_data[k] ]_vars

C22_Witness ==
    /\ ndisconnects = 1
    /\ client = "stopped"
    /\ clock = 3
    /\ heap.grid.power_w # Absent
    /\ current_data.timestamp = Iso(2)
    /\ current_data.last_update = Hms(2)
    /\ current_data.connected = FALSE
    /\ current_data.last_disconnect = Iso(3)

C23SetTopics ==
    { "SZE/inverter_1/output_source_priority/set",
      "SZE/inverter_1/max_grid_charge_current/set",
      "SZE/inverter_1/charger_source_priority/set" }

\* C23: a publish_command call returns a boolean, True exactly when
\* client.publish did not raise (False with no client, True again after a
\* disconnect), hands a set_* command to the client as
\* {prefix}/inverter_1/<field>/set with a string value, and leaves the
\* snapshot, the nested readings and the topic cache as they were.
C23_PublishReturnsSendOutcome ==
    [][ pub' # pub
        => /\ pub'.ret \in BOOLEAN
           /\ pub'.ret = (pub'.outcome = "returned")
           /\ pub'.outcome = "returned" <=> pub'.sent # {}
           /\ client = "None" => pub'.ret = FALSE
           /\ (client # "None" /\ pub'.call \in SetCommands)
                 => /\ pub'.ret = TRUE
                    /\ \A m \in pub'.sent : m.topic \in C23SetTopics /\ "str" \in DOMAIN m.payload
                    /\ pub'.sent # {}
           /\ current_data' = current_data
           /\ heap' = heap
           /\ data_cache' = data_cache ]_vars

C23_Witness ==
    /\ client = "stopped"
    /\ ndisconnects = 1
    /\ current_data.last_disconnect # Absent
    /\ pub # NoPublish
    /\ pub.call = SetMaxGridChargeCurrent(30)
    /\ pub.sent = { [topic |-> "SZE/inverter_1/max_grid_charge_current/set", payload |-> Str("30")] }
    /\ pub.ret = TRUE

\* A connect() that failed: the step that leaves False as its return value.
C24ConnectFailed ==
    /\ connect_ret' = "False"
    /\ client' # client \/ connect_ret' # connect_ret

\* C24: a connect() that fails returns False, starts no network loop (so that
\* a session is opened again only by the next connect() call) and leaves the
\* snapshot, the nested readings and the topic cache unchanged.
C24_FailedConnectChangesNothing ==
    [][ /\ C24ConnectFailed
           => /\ client' = "created"
              /\ link' = "down"
              /\ current_data' = current_data
              /\ heap' = heap
              /\ data_cache' = data_cache
        /\ (client = "created" /\ link' # link)
           => (connect_ret' = "True" /\ client' = "looping") ]_vars

C24_Witness ==
    /\ connect_ret = "False"
    /\ client = "created"
    /\ link = "down"
    /\ ndisconnects = 1
    /\ heap.grid.power_w # Absent
    /\ current_data.last_connect # Absent
    /\ current_data.connected = FALSE

(***************************************************************************)
(* Claims about the integration.                                           *)
(***************************************************************************)
\* The instant of a sample in TIMEZONE (its key parses).
C25Instant(x) == x.key.t + TzOffset

\* The samples of the call that lie in [start, end), and not before from_time.
C25Inside(call) ==
    { i \in 1..Len(call.forecast_data.mapping) :
        LET dt == C25Instant(call.forecast_data.mapping[i])
        IN /\ call.start <= dt
           /\ dt < call.end
           /\ call.from_time = NoFromTime \/ dt >= call.from_time }

RECURSIVE C25Total(_, _)
C25Total(call, idx) ==
    IF idx = {} THEN 0
    ELSE LET i == CHOOSE j \in idx : TRUE
         IN call.forecast_data.mapping[i].power + C25Total(call, idx \ {i})

\* C25: the energy a call returns is the month factor times the powers of
\* exactly the samples with start <= time < end: a sample at the start
\* counts, a sample at the end or outside the window does not.
C25_WindowIsHalfOpen ==
    (ce_in # NoCall /\ ~IsRaised(ce_out))
        => ce_out = Value(C25Total(ce_in, C25Inside(ce_in)) * MonthFactor(ce_in.month))

\* A sample exactly at the start and one exactly at the end: only the first counts.
C25_Witness ==
    /\ ce_in # NoCall
    /\ ce_in.forecast_data =
          Mapping(<< Sample(Key("iso", 540), 1000), Sample(Key("iso", 600), 2000) >>)
    /\ ce_in.start = 600
    /\ ce_in.end = 660
    /\ ce_in.from_time = NoFromTime
    /\ ce_in.month = 6
    /\ ce_out = Value(10000)

\* C26: while a tick runs, the correction factor it applies is the entry of
\* the month table for the calendar month of the day the tick fired on.
C26_FactorOfCurrentMonth ==
    sched_pc = "job" => MonthFactor(now_month) = MONTH_FACTORS[MonthOn(calendar, today)]

(***************************************************************************)
(* Claims about the coverage of the day.                                   *)
(***************************************************************************)
\* C27: for every minute of the day the classifier, working on the windows of
\* calculate_daily_windows, answers one of the three windows and never None.
C27_EveryMinuteHasAWindow ==
    cls_now # -1 => cls_out \in {"loading_window", "evening_window", "night_window"}

(***************************************************************************)
(* Claims about the date of a tick.                                        *)
(***************************************************************************)
\* C28: the result the midnight tick is about to write carries the date of the
\* local day that tick fired on (the day beginning at that 00:00), in winter
\* time and in summer time alike; the loading window is counted from 00:00 of
\* the date the result carries.
C28_MidnightTickDatesItsDay ==
    (mf_pc = "persist" /\ mf.is_midnight)
        => /\ mf.prognoza.data = today
           /\ mf.date = today

\* The powers of the call are numbers, none below zero.
C29NonNegative(call) ==
    \A i \in 1..Len(call.forecast_data.mapping) :
        /\ call.forecast_data.mapping[i].power # NonNumeric
        /\ call.forecast_data.mapping[i].power >= 0

\* The same call without from_time: the midnight tick's energy.
C29Midnight(call) ==
    CalculateEnergy(call.forecast_data, call.start, call.end, NoFromTime, call.month)

\* C29: with no power below zero, the energy counted from 12:00 is never above
\* the energy of the whole loading window for the same series, window and
\* month, and equals it when the window starts at 12:00 or later.
C29_NoonNotAboveMidnight ==
    (ce_in # NoCall /\ ce_in.from_time = 720 /\ C29NonNegative(ce_in) /\ ~IsRaised(ce_out))
        => /\ ~IsRaised(C29Midnight(ce_in))
           /\ ce_out.value <= C29Midnight(ce_in).value
           /\ ce_in.start >= 720 => ce_out = C29Midnight(ce_in)

\* 1000 W before 12:00 and 2000 W at 12:00 in the window 10:00-13:00.
C29_Witness ==
    /\ ce_in # NoCall
    /\ ce_in.forecast_data =
          Mapping(<< Sample(Key("iso", 540), 1000), Sample(Key("iso", 660), 2000) >>)
    /\ ce_in.start = 600
    /\ ce_in.end = 780
    /\ ce_in.from_time = 720
    /\ ce_in.month = 6
    /\ ce_out = Value(20000)
    /\ C29Midnight(ce_in) = Value(30000)

(***************************************************************************)
(* Claims about the dispatch of a message.                                 *)
(***************************************************************************)
\* The channels in the order they are asked for, and for each channel its
\* field names in order, each with the nested dict and the key it stands for.
C30Channels == << "inverter_1", "total", "battery_1" >>

C30Fields ==
    [ inverter_1 |-> << <<"grid_power", "grid", "power_w">>,
                        <<"pv_power", "pv", "power_w">>,
                        <<"load_power", "load", "power_w">>,
                        <<"output_source_priority", "inverter", "output_source">>,
                        <<"charger_source_priority", "inverter", "charger_source">>,
                        <<"max_grid_charge_current", "inverter", "max_grid_charge_a">> >>,
      total |-> << <<"battery_state_of_charge", "battery", "soc_percent">>,
                   <<"battery_power", "battery", "power_w">>,
                   <<"grid_power", "grid", "power_w">> >>,
      battery_1 |-> << <<"state_of_charge", "battery", "soc_percent">>,
                       <<"voltage", "battery", "voltage_v">>,
                       <<"current", "battery", "current_a">> >> ]

C30Least(idx) == CHOOSE i \in idx : \A j \in idx : i <= j

\* The reading a topic stands for: the first field of the first channel that
\* occur in it, as a set of at most one <<dict, key>>.
C30Target(topic) ==
    LET chans == { i \in 1..Len(C30Channels) : In(C30Channels[i], topic) }
    IN IF chans = {} THEN {}
       ELSE LET fields == C30Fields[C30Channels[C30Least(chans)]]
                hits == { i \in 1..Len(fields) : In(fields[i][1], topic) }
            IN IF hits = {} THEN {}
               ELSE { << fields[C30Least(hits)][2], fields[C30Least(hits)][3] >> }

\* The readings a step changes.
C30Changed ==
    { f \in { <<o, k>> : o \in DOMAIN heap, k \in {"output_source", "charger_source",
                "max_grid_charge_a", "soc_percent", "power_w", "voltage_v", "current_a"} } :
        /\ f[2] \in DOMAIN heap[f[1]]
        /\ heap'[f[1]][f[2]] # heap[f[1]][f[2]] }

\* C30: a message changes at most one reading, the one its topic stands for by
\* the first matching channel (inverter_1, total, battery_1) and the first
\* matching field of that channel; a topic that matches no channel or no
\* field changes no reading.
C30_OneFieldPerMessage ==
    [][ nmsgs' = nmsgs + 1
        => /\ Cardinality(C30Changed) <= 1
           /\ C30Changed \subseteq C30Target(last_msg'.topic) ]_vars

\* A topic that names "current" and goes to the inverter, not to the battery.
C30_Witness ==
    /\ nmsgs = 2
    /\ last_msg.topic.name = "SZE/inverter_1/max_grid_charge_current/state"
    /\ msg_exc = "none"
    /\ heap.inverter.max_grid_charge_a # Absent
    /\ heap.battery.current_a = Absent
    /\ heap.battery.voltage_v = Absent
    /\ data_cache["SZE/battery_1/total_voltage/state"] # Absent

(***************************************************************************)
(* Claims about the lock.                                                  *)
(***************************************************************************)
\* The lock is held exactly by a thread inside its with block.
C31HeldInsideWith ==
    /\ lock = "net" <=> net_pc \in {"msg_parse", "msg_stamp", "msg_release"}
    /\ lock = "reader" <=> rd_pc = "copy"
    /\ lock \in {"free", "net", "reader"}

\* C31: the lock is held only by a thread inside its with block, so it is free
\* after every _on_message (also one that failed) and every get_current_data
\* and is never asked for by the thread that holds it; a lock that is held is
\* released again, so a read returns and the handler is ready for the next
\* message.
C31_LockNeverLeftHeld ==
    /\ []C31HeldInsideWith
    /\ (lock # "free") ~> (lock = "free")
    /\ (rd_pc = "copy") ~> (rd_pc = "idle")
    /\ (net_pc \in {"msg_parse", "msg_stamp", "msg_release"}) ~> (net_pc = "idle" /\ lock = "free")

\* A message that failed in float(), a later message that was applied, and a
\* read that returned.
C31_Witness ==
    /\ nmsgs = 2
    /\ net_pc = "idle"
    /\ rd_pc = "idle"
    /\ lock = "free"
    /\ msg_exc = "none"
    /\ held # NoSnapshot
    /\ data_cache["SZE/inverter_1/grid_power/state"] # Absent
    /\ data_cache["SZE/inverter_1/grid_power/state"].value = Str(<<"sup2">>)
    /\ heap.grid.power_w = Absent
    /\ heap.inverter.output_source # Absent

(***************************************************************************)
(* C32: the configuration cache keeps the last values that loaded.         *)
(***************************************************************************)
\* A file that fails to load: missing, malformed, or empty.
C32FailsToLoad(content) == content \in {NoFile, NotJson, Json(Dict(0, "none"))}

C32ReloadRuns == nreloads' = nreloads + 1

\* C32: every run of reload_all_configs returns True exactly when all four
\* files loaded, leaves the cached entry of each file that failed to load
\* (missing, malformed or empty) as it was and replaces the entry of each file
\* that did load by its validated contents; and every getter called while its
\* entry is empty runs reload_all_configs.
C32_CacheKeepsLastKnownGood ==
    [][/\ C32ReloadRuns =>
            /\ reload_ret' =
                  Value(\A k \in ConfigKeys : ~C32FailsToLoad(cfg_files[k]))
            /\ \A k \in ConfigKeys :
                  IF C32FailsToLoad(cfg_files[k])
                  THEN config_cache'[k] = config_cache[k]
                  ELSE Value(config_cache'[k]) = ValidateConfig(cfg_files[k].value)
       /\ \A k \in ConfigKeys :
            (GetterReturns(k) /\ cfg_calls' # cfg_calls /\ config_cache[k] = None)
               => C32ReloadRuns]_vars

(***************************************************************************)
(* C33: /api/mqtt/status against the snapshot's connected flag.            *)
(***************************************************************************)
\* A request to /api/mqtt/status has just been answered with a body.
C33StatusServed ==
    /\ nrequests' = nrequests + 1
    /\ api_resp'.endpoint = "/api/mqtt/status"
    /\ "connected" \in DOMAIN api_resp'

\* C33: whatever the state of the session (before connect, while connected,
\* after disconnect), the "connected" value /api/mqtt/status answers with is
\* the connected flag of the aggregator's snapshot, the value /api/mqtt-data
\* reports as mqtt_connected.
C33_StatusReportsSnapshotFlag ==
    [][C33StatusServed => api_resp'.connected = current_data.connected]_vars

====
